---- MODULE Spec2Model ----
(***************************************************************************)
(* NetBird Sentinel: the polling loop of src/main.py with its failure      *)
(* counter and escalation, the restart action of                           *)
(* src/recovery/netbird_restart.py, the health assessor of                 *)
(* src/diagnostics/collector.py and the store of src/storage/database.py.  *)
(*                                                                         *)
(* Python values: None (SQL NULL) is the empty tuple Null and a present    *)
(* value v is Some(v); a text (stdout, stderr) is a sequence of            *)
(* characters, of which " " and "\n" are whitespace; an exception that     *)
(* leaves a call is recorded in exc, with its type and the call that       *)
(* raised it, and control goes to where main's try statement sends it.     *)
(***************************************************************************)
EXTENDS Integers, Sequences, FiniteSets, TLC

\* ------------------------------------------------------------------ bounds

\* Polling cycles explored per run of the daemon.
MaxCycles == 3
\* Largest configured NETBIRD_RESTART_FAILURE_THRESHOLD explored.
MaxThreshold == 3
MaxServices == 4
MaxRows == 2
MaxCalls == 2
MaxIds == 3
MaxClears == 1
MaxLogs == 4

\* ----------------------------------------------------------- configuration

\* NETBIRD_RESTART_FAILURE_THRESHOLD is any integer of the environment:
\* negative, zero and positive values are explored.
Thresholds == {0 - 1, 0} \cup (1 .. MaxThreshold)

\* Seconds slept at the end of a cycle (default of config.py).
ROUTINE_CHECK_INTERVAL == 1
\* Seconds slept after a restart attempt; the environment sets it, the
\* model runs with 2.
RESTART_WAIT_SECONDS == 2
\* Seconds after which the report is due; the environment sets it, the
\* model runs with 2.
REPORT_INTERVAL_SECONDS == 2

\* The monitored services, in the order check_services probes them: one
\* hostname-keyed (Config.SERVICES), one address-keyed (Config.SERVICE_IPS).
ServiceOrder == <<"svc-a", "203.0.113.5">>

Services == {ServiceOrder[i] : i \in 1 .. Len(ServiceOrder)}

\* ------------------------------------------------------------ python values

Null == <<>>

Some(v) == <<v>>

\* A boolean or None.
PyBool == {Null, Some(TRUE), Some(FALSE)}

Whitespace == {" ", "\n"}

\* str.strip(): leading and trailing whitespace removed.
RECURSIVE lstrip(_)
lstrip(s) ==
    IF s # <<>> /\ Head(s) \in Whitespace THEN lstrip(Tail(s)) ELSE s

RECURSIVE rstrip(_)
rstrip(s) ==
    IF s # <<>> /\ s[Len(s)] \in Whitespace
    THEN rstrip(SubSeq(s, 1, Len(s) - 1))
    ELSE s

strip(s) == rstrip(lstrip(s))

\* any(xs) and all(xs) of a list of booleans.
any(xs) == \E i \in 1 .. Len(xs) : xs[i]

\* Mutant of all: the first element decides.
all_first(xs) == xs[1]

all(xs) == \A i \in 1 .. Len(xs) : xs[i]

\* ------------------------------------------------------------ health assessor

\* The values of a services dict, in its order; keys is the dict's key order.
ReachableList(keys, services) == [i \in 1 .. Len(keys) |-> services[keys[i]]]

\* Mutant of assess_health: missing process data counts as running.
assess_health_unless_stopped(results) ==
    LET netbird_running == results.process # Some(FALSE)
        reachable == ReachableList(results.keys, results.services)
        any_services == IF reachable # <<>> THEN any(reachable) ELSE FALSE
        all_services == IF reachable # <<>> THEN all(reachable) ELSE FALSE
    IN  IF ~netbird_running \/ (netbird_running /\ ~any_services)
        THEN "failed"
        ELSE IF netbird_running /\ ~all_services
             THEN "degraded"
             ELSE "healthy"

\* Mutant of assess_health: any() of an empty service list defaults to true.
assess_health_empty_any(results) ==
    LET netbird_running == results.process = Some(TRUE)
        reachable == ReachableList(results.keys, results.services)
        any_services == IF reachable # <<>> THEN any(reachable) ELSE TRUE
        all_services == IF reachable # <<>> THEN all(reachable) ELSE FALSE
    IN  IF ~netbird_running \/ (netbird_running /\ ~any_services)
        THEN "failed"
        ELSE IF netbird_running /\ ~all_services
             THEN "degraded"
             ELSE "healthy"

\* assess_health(results): results.process is process.get("running")
\* (Null when the process data is missing), results.keys the service keys
\* in order, results.services their "reachable" values.
assess_health(results) ==
    LET netbird_running == results.process = Some(TRUE)
        reachable == ReachableList(results.keys, results.services)
        any_services == IF reachable # <<>> THEN any(reachable) ELSE FALSE
        all_services == IF reachable # <<>> THEN all(reachable) ELSE FALSE
    IN  IF ~netbird_running \/ (netbird_running /\ ~any_services)
        THEN "failed"
        ELSE IF netbird_running /\ ~all_services
             THEN "degraded"
             ELSE "healthy"

\* summarize_health_check(results, status): the fields of the record that
\* depend on the bundle; ts is results["timestamp"].
summarize_health_check(results, st, ts) ==
    [timestamp       |-> ts,
     check_type      |-> "routine",
     netbird_running |-> results.process,
     services_status |-> [keys |-> results.keys, values |-> results.services],
     system_healthy  |-> st = "healthy"]

\* The routine bundles run_routine_checks can return with the configured
\* services: the process found, not found, or its data missing (psutil
\* raised), each service reachable or not.
Bundles ==
    {[process |-> p, keys |-> ServiceOrder, services |-> s] :
        p \in PyBool, s \in [Services -> BOOLEAN]}

\* The key of the i-th monitored service of a configuration.
ServiceKey(i) == "svc-" \o ToString(i)

\* The routine bundles of every configuration of up to MaxServices
\* services, the empty one included.
AssessBundles ==
    UNION {{[process |-> p,
             keys |-> [i \in 1 .. n |-> ServiceKey(i)],
             services |-> s] :
                p \in PyBool, s \in [{ServiceKey(i) : i \in 1 .. n} -> BOOLEAN]} :
           n \in 0 .. MaxServices}

\* The bundles the polling loop is run with: the process running with
\* both services, the hostname alone or no service reachable, and the
\* process not running with both services reachable.
LoopBundles ==
    {b \in Bundles :
        \/ /\ b.process = Some(TRUE)
           /\ (b.services["203.0.113.5"] => b.services["svc-a"])
        \/ /\ b.process = Some(FALSE)
           /\ \A k \in Services : b.services[k]}

\* ---------------------------------------------------------------- the store

\* json.dumps of a services dict: the pairs key: value in the dict's order,
\* a boolean written as the JSON literal true or false.
json_dumps(d) ==
    [i \in 1 .. Len(d.keys) |->
        <<d.keys[i], IF d.values[d.keys[i]] THEN "true" ELSE "false">>]

\* json.loads of such a text: the dict of its pairs, true and false read
\* as booleans.
json_loads(text) ==
    [keys   |-> [i \in 1 .. Len(text) |-> text[i][1]],
     values |-> [k \in {text[i][1] : i \in 1 .. Len(text)} |->
                    LET i == CHOOSE j \in 1 .. Len(text) : text[j][1] = k
                    IN  text[i][2] = "true"]]

\* The columns the schema declares BOOLEAN.
BooleanColumns ==
    {"netbird_running", "system_healthy", "auto_restart_attempted",
     "restart_successful"}

\* A Python value bound to a BOOLEAN column, as a SELECT gives it back:
\* True is the integer 1, False the integer 0, None is NULL.
bound(v) == IF v = Null THEN Null ELSE IF v[1] THEN Some(1) ELSE Some(0)

\* The value a column holds after value v was bound to it.
stored(column, v) == IF column \in BooleanColumns THEN bound(v) ELSE v

\* The row log_health_check inserts for record data, with the identifier
\* AUTOINCREMENT assigns after seq rows.
health_check_row(seq, data) ==
    [id              |-> seq + 1,
     timestamp       |-> data.timestamp,
     check_type      |-> data.check_type,
     netbird_running |-> bound(data.netbird_running),
     services_status |-> json_dumps(data.services_status),
     system_healthy  |-> bound(Some(data.system_healthy))]

\* json.dumps of a diagnostics dict: the text that json.loads reads back
\* as that dict.
dumps(obj) == [json |-> obj]

\* data.get("diagnostics", {}).
diagnostics_of(data) ==
    IF "diagnostics" \in DOMAIN data THEN data.diagnostics ELSE <<>>

\* Mutant of failure_row: the outcome columns default to a failed restart
\* instead of NULL.
failure_row_defaulted(seq, data) ==
    [id                     |-> seq + 1,
     timestamp              |-> data.timestamp,
     failure_type           |-> data.failure_type,
     severity               |-> data.severity,
     diagnostics            |-> dumps(diagnostics_of(data)),
     auto_restart_attempted |-> bound(data.auto_restart_attempted),
     restart_successful     |-> Some(0),
     recovery_timestamp     |-> <<>>,
     notes                  |-> <<>>]

\* dict.get(key): None when the dict has no such key.
Get(d, key) == IF key \in DOMAIN d THEN d[key] ELSE Null

\* The row log_failure inserts for incident data; a column whose key data
\* does not hold is NULL.
failure_row(seq, data) ==
    [id                     |-> seq + 1,
     timestamp              |-> data.timestamp,
     failure_type           |-> data.failure_type,
     severity               |-> Get(data, "severity"),
     diagnostics            |-> dumps(diagnostics_of(data)),
     auto_restart_attempted |-> bound(Get(data, "auto_restart_attempted")),
     restart_successful     |-> bound(Get(data, "restart_successful")),
     recovery_timestamp     |-> Get(data, "recovery_timestamp"),
     notes                  |-> Get(data, "notes")]

\* One row with the columns named in updates (a sequence of <<key, value>>)
\* set, in order.
RECURSIVE set_fields(_, _)
set_fields(row, updates) ==
    IF updates = <<>>
    THEN row
    ELSE set_fields([row EXCEPT ![updates[1][1]] =
                                    stored(updates[1][1], updates[1][2])],
                    Tail(updates))

\* Mutant of update_failure: the UPDATE has no WHERE clause.
update_failure_all_rows(table, id, updates) ==
    IF updates = <<>>
    THEN table
    ELSE [i \in 1 .. Len(table) |-> set_fields(table[i], updates)]

\* UPDATE failures SET ... WHERE id = failure_id; nothing when updates is
\* empty.
update_failure(table, id, updates) ==
    IF updates = <<>>
    THEN table
    ELSE [i \in 1 .. Len(table) |->
            IF table[i].id = id THEN set_fields(table[i], updates) ELSE table[i]]

\* Mutant of newest_first: ORDER BY timestamp, ascending.
oldest_first(x, y) == x.timestamp <= y.timestamp

\* ORDER BY timestamp DESC: row x may come before row y.
newest_first(x, y) == x.timestamp >= y.timestamp

\* The orders in which SELECT ... ORDER BY timestamp DESC can return the
\* rows of a table: the sort says nothing about rows of equal timestamp.
Orderings(table) ==
    {p \in [1 .. Len(table) -> 1 .. Len(table)] :
        /\ \A i, j \in 1 .. Len(table) : i # j => p[i] # p[j]
        /\ \A i, j \in 1 .. Len(table) :
                i < j => newest_first(table[p[i]], table[p[j]])}

\* The results SELECT * FROM table ORDER BY timestamp DESC LIMIT limit can
\* have; a negative limit is no limit.
get_recent(table, limit) ==
    LET n == IF limit < 0 \/ limit > Len(table) THEN Len(table) ELSE limit
    IN  {[i \in 1 .. n |-> table[p[i]]] : p \in Orderings(table)}

\* -------------------------------------------------------- external commands

\* subprocess.run(command, timeout=...): the command completed with an exit
\* code and its output, or subprocess.TimeoutExpired was raised.
Completed(rc, out, err) ==
    [kind |-> "completed", returncode |-> rc, stdout |-> out, stderr |-> err]

TimeoutExpired ==
    [kind |-> "timeout", returncode |-> 0 - 1, stdout |-> <<>>, stderr |-> <<>>]

NotRun ==
    [kind |-> "notrun", returncode |-> 0 - 1, stdout |-> <<>>, stderr |-> <<>>]

\* What a command tagged c can do, as the polling loop needs it: exit 0
\* with output, exit 1 with an error text, or run into the timeout.
LoopOutcomes(c) ==
    {Completed(0, <<c, "\n">>, <<>>), Completed(1, <<>>, <<c, "!", "\n">>),
     TimeoutExpired}

\* The same with the output texts varied: empty, padded with whitespace,
\* and an error text beside a zero exit code.
CallOutcomes(c) ==
    {Completed(rc, out, err) :
        rc \in {0, 1},
        out \in {<<>>, <<c, "\n">>, <<" ", c>>},
        err \in {<<>>, <<c, "!", "\n">>}}
    \cup {TimeoutExpired}

\* The restart result of a local that is not assigned yet.
NoResult ==
    [success |-> FALSE, error |-> Null, stdout |-> <<>>, stderr |-> <<>>,
     method |-> "unassigned"]

\* restart_netbird_service, its three return statements.
PsResult(p) ==
    [success |-> TRUE, error |-> Null, stdout |-> strip(p.stdout),
     stderr |-> strip(p.stderr), method |-> "powershell_restart_service"]

NetResult(st, sa) ==
    [success |-> TRUE, error |-> Null, stdout |-> strip(st.stdout \o sa.stdout),
     stderr |-> strip(st.stderr \o sa.stderr), method |-> "net_stop_start"]

FailedResult(p, st, sa) ==
    [success |-> FALSE, error |-> Some("restart_failed"),
     stdout |-> strip(p.stdout \o st.stdout \o sa.stdout),
     stderr |-> strip(p.stderr \o st.stderr \o sa.stderr),
     method |-> "failed"]

\* The deep bundles run_deep_checks can return: every capture succeeded, or
\* every capture ended with a non-zero exit code (command_failed).
DeepBundles ==
    {[network_adapters |-> b, routing_table |-> b, dns_servers |-> b,
      active_connections |-> b, windows_events |-> b] : b \in BOOLEAN}

\* The polling loop is run with the first kind.
LoopDeepBundles == {d \in DeepBundles : d.network_adapters}

NoDeep ==
    [network_adapters |-> FALSE, routing_table |-> FALSE, dns_servers |-> FALSE,
     active_connections |-> FALSE, windows_events |-> FALSE]

\* ------------------------------------------------------------------- state

VARIABLES
    \* Config, read from the environment when config.py is imported.
    RESTART_FAILURE_THRESHOLD, AUTO_RESTART_ENABLED,
    \* main(): the position in the loop and its locals.
    pc, failed_count, report_generated, results, status, deep_results,
    failure_id, restart_result,
    \* restart_netbird_service(): the results of its three commands.
    ps, stop, start,
    \* The exception that was raised, if any.
    exc,
    \* The clock, in seconds since start_time.
    now,
    \* The store: its tables and the sqlite_sequence counters.
    health_checks, failures, sqlite_sequence,
    \* The other tables of the store.
    windows_events, meta_logs,
    \* The store's connection among concurrent callers: the holder of
    \* Database._lock, each caller's position in its store call, the
    \* statements of the connection's open transaction and the committed
    \* tables.
    lock, thr, uncommitted, durable,
    \* History, for the properties only: one record per polling cycle, the
    \* commands restart_netbird_service has run in its current call, and
    \* the last call made to the store alone with the tables before it.
    hist, cmdlog, call

config == <<RESTART_FAILURE_THRESHOLD, AUTO_RESTART_ENABLED>>

locals == <<results, status, deep_results, failure_id, restart_result>>

cmds == <<ps, stop, start, cmdlog>>

store == <<health_checks, failures, sqlite_sequence>>

conn == <<windows_events, meta_logs, lock, thr, uncommitted, durable>>

vars ==
    <<config, pc, failed_count, report_generated, locals, cmds, exc, now,
      store, hist, conn, call>>

NoException == [type |-> "none", site |-> "none"]

\* The history record of a cycle that starts with the counter at n.
NewCycle(n) ==
    [start_count |-> n, status |-> "unassessed", gate |-> "pending",
     deep_calls |-> <<>>, incidents |-> <<>>, restarts |-> 0,
     updated |-> <<>>, cooldowns |-> 0, reports |-> 0, done |-> FALSE]

\* The current cycle's history record, and that record with field f set.
Cur == hist[Len(hist)]

Noted(f, v) == [hist EXCEPT ![Len(hist)][f] = v]

\* main.py 28, 125-126: the try around the loop catches KeyboardInterrupt
\* alone and main returns ("stopped"); any other exception leaves main and
\* ends the process ("terminated").
handler(type) == IF type = "KeyboardInterrupt" THEN "stopped" ELSE "terminated"

\* An exception of the given type leaves the call named site; nothing
\* between that call and main's try statement catches it.
Raise(type, site) ==
    /\ pc' = handler(type)
    /\ exc' = [type |-> type, site |-> site]

\* The callers of the store.
Threads == {"loop", "logger"}

NoCursor == [rows |-> <<>>, snapshot |-> <<>>]

\* A caller that is in no store call.
IdleThread ==
    [pc |-> "idle", op |-> "none", step |-> 0, calls |-> 0, limit |-> 0,
     cursor |-> NoCursor]

NoTables ==
    [health_checks |-> <<>>, failures |-> <<>>, windows_events |-> <<>>,
     meta_logs |-> <<>>]

\* The connection after initialize() on a new file, no caller in a call.
ConnectionIdle ==
    /\ windows_events = <<>>
    /\ meta_logs = <<>>
    /\ lock = Null
    /\ thr = [t \in Threads |-> IdleThread]
    /\ uncommitted = <<>>
    /\ durable = NoTables

NoCall ==
    [op |-> "none", id |-> 0, updates |-> <<>>, limit |-> 0, data |-> <<>>,
     result |-> <<>>, before |-> <<>>, last |-> <<>>,
     issued |-> <<>>, clears |-> 0]

\* The record of a call of op on the incident table.
IncidentCall(op) == [NoCall EXCEPT !.op = op]

\* The record of a call of op, with the call before it, the identifiers
\* the inserts have returned so far and the number of clear_all calls.
NewCall(op) ==
    [NoCall EXCEPT !.op = op,
                   !.last = [op |-> call.op, data |-> call.data,
                             result |-> call.result],
                   !.issued = call.issued,
                   !.clears = call.clears]

Init ==
    /\ ConnectionIdle
    /\ call = NoCall
    /\ RESTART_FAILURE_THRESHOLD \in Thresholds
    /\ AUTO_RESTART_ENABLED \in BOOLEAN
    /\ pc = "run_routine_checks"
    /\ failed_count = 0
    /\ report_generated = FALSE
    /\ results = CHOOSE b \in LoopBundles : TRUE
    /\ status = "unassessed"
    /\ deep_results = NoDeep
    /\ failure_id = 0
    /\ restart_result = NoResult
    /\ ps = NotRun
    /\ stop = NotRun
    /\ start = NotRun
    /\ cmdlog = <<>>
    /\ exc = NoException
    /\ now = 0
    /\ health_checks = <<>>
    /\ failures = <<>>
    /\ sqlite_sequence = [health_checks |-> 0, failures |-> 0]
    /\ hist = <<>>

\* ------------------------------------------------------- the polling loop

\* One action per statement of the loop that changes its state or can
\* raise. The logger calls between them (main.py 35-63, 66-71, 88-101, 112,
\* 118-122) never raise (SQLiteHandler.emit catches everything) and touch
\* the meta_logs table only, which this model does not hold. The clock
\* advances in the two sleeps.

\* Mutants of counted: the counter kept, or decremented, by a cycle that
\* is not failed.
counted_kept(st, n) == IF st = "failed" THEN n + 1 ELSE n

counted_decayed(st, n) ==
    IF st = "failed" THEN n + 1 ELSE IF n > 0 THEN n - 1 ELSE 0

\* main.py 64-73: the counter after a cycle assessed st.
counted(st, n) == IF st = "failed" THEN n + 1 ELSE 0

\* Mutant of escalates: the status of the cycle is not tested.
escalates_any_status(st, n, threshold) == n >= threshold

\* Mutant of escalates: the threshold has to be exceeded.
escalates_late(st, n, threshold) == st = "failed" /\ n > threshold

\* main.py 75: whether the cycle escalates.
escalates(st, n, threshold) == st = "failed" /\ n >= threshold

\* Mutant of after_incident: the flag is not consulted.
after_incident_always(enabled) == "call_restart"

\* Mutant of after_incident: the counter is reset in the restart branch
\* alone.
after_incident_unreset(enabled) == IF enabled THEN "call_restart" ELSE "report"

\* main.py 87, 111: where the escalation goes once the incident is written.
after_incident(enabled) == IF enabled THEN "call_restart" ELSE "reset_count"

\* Mutant of outcome_updates: restart_successful says that a restart was
\* attempted.
outcome_updates_attempted(r, ts) ==
    << <<"restart_successful", Some(r.method # "unassigned")>>,
       <<"recovery_timestamp", Some(ts)>>,
       <<"notes", Some(IF r.stderr # <<>> THEN r.stderr ELSE r.stdout)>> >>

\* main.py 105-107: the updates of the incident after the restart attempt.
outcome_updates(r, ts) ==
    << <<"restart_successful", Some(r.success)>>,
       <<"recovery_timestamp", Some(ts)>>,
       <<"notes", Some(IF r.stderr # <<>> THEN r.stderr ELSE r.stdout)>> >>

\* main.py 30-32: the routine probes and the assessment of their bundle.
RunRoutineChecks ==
    /\ pc = "run_routine_checks"
    /\ Len(hist) < MaxCycles
    /\ \E b \in LoopBundles :
        /\ results' = b
        /\ status' = assess_health(b)
        /\ hist' = Append(hist,
                [NewCycle(failed_count) EXCEPT !.status = assess_health(b)])
    /\ pc' = "log_health_check"
    /\ UNCHANGED <<config, conn, call,
                   failed_count, report_generated, deep_results,
                   failure_id, restart_result, cmds, exc, now, store>>

\* main.py 32-33: the record is written, or the store raises.
LogHealthCheck ==
    /\ pc = "log_health_check"
    /\ \/ /\ health_checks' = Append(health_checks,
                health_check_row(sqlite_sequence.health_checks,
                                 summarize_health_check(results, status, now)))
          /\ sqlite_sequence' =
                [sqlite_sequence EXCEPT !.health_checks = @ + 1]
          /\ pc' = "count"
          /\ exc' = exc
       \/ /\ Raise("sqlite3.Error", "db.log_health_check")
          /\ UNCHANGED <<health_checks, sqlite_sequence>>
    /\ UNCHANGED <<config, conn, call,
                   failed_count, report_generated, locals, cmds, now,
                   failures, hist>>

\* main.py 64-73: the consecutive-failure counter.
Count ==
    /\ pc = "count"
    /\ failed_count' = counted(status, failed_count)
    /\ pc' = "gate"
    /\ UNCHANGED <<config, conn, call,
                   report_generated, locals, cmds, exc, now, store,
                   hist>>

\* main.py 75: the escalation test.
Gate ==
    /\ pc = "gate"
    /\ IF escalates(status, failed_count, RESTART_FAILURE_THRESHOLD)
       THEN /\ pc' = "run_deep_checks"
            /\ hist' = Noted("gate", "escalate")
       ELSE /\ pc' = "report"
            /\ hist' = Noted("gate", "pass")
    /\ UNCHANGED <<config, conn, call,
                   failed_count, report_generated, locals, cmds, exc,
                   now, store>>

\* main.py 76: run_deep_checks returns a bundle, or one of its commands
\* runs into its timeout and subprocess.run raises.
RunDeepChecks ==
    /\ pc = "run_deep_checks"
    /\ \/ /\ \E d \in LoopDeepBundles : deep_results' = d
          /\ pc' = "log_failure"
          /\ exc' = exc
       \/ /\ Raise("TimeoutExpired", "run_deep_checks")
          /\ deep_results' = deep_results
    /\ hist' = Noted("deep_calls", Append(Cur.deep_calls, "escalation"))
    /\ UNCHANGED <<config, conn, call,
                   failed_count, report_generated, results, status,
                   failure_id, restart_result, cmds, now, store>>

\* Mutant of LogFailure: the identifier db.log_failure returns is dropped.
LogFailure_id_dropped ==
    /\ pc = "log_failure"
    /\ \/ /\ failures' = Append(failures,
                failure_row(sqlite_sequence.failures,
                    [timestamp |-> now,
                     failure_type |-> "auto_detected",
                     severity |-> Some("critical"),
                     diagnostics |-> [routine |-> results, deep |-> deep_results],
                     auto_restart_attempted |-> Some(AUTO_RESTART_ENABLED)]))
          /\ sqlite_sequence' = [sqlite_sequence EXCEPT !.failures = @ + 1]
          /\ failure_id' = failure_id
          /\ hist' = Noted("incidents",
                           Append(Cur.incidents, sqlite_sequence.failures + 1))
          /\ pc' = after_incident(AUTO_RESTART_ENABLED)
          /\ exc' = exc
       \/ /\ Raise("sqlite3.Error", "db.log_failure")
          /\ UNCHANGED <<failures, sqlite_sequence, failure_id, hist>>
    /\ UNCHANGED <<config, conn, call,
                   failed_count, report_generated, results, status,
                   deep_results, restart_result, cmds, now, health_checks>>

\* main.py 77-85: the incident is written, or the store raises.
LogFailure ==
    /\ pc = "log_failure"
    /\ \/ /\ failures' = Append(failures,
                failure_row(sqlite_sequence.failures,
                    [timestamp |-> now,
                     failure_type |-> "auto_detected",
                     severity |-> Some("critical"),
                     diagnostics |-> [routine |-> results, deep |-> deep_results],
                     auto_restart_attempted |-> Some(AUTO_RESTART_ENABLED)]))
          /\ sqlite_sequence' = [sqlite_sequence EXCEPT !.failures = @ + 1]
          /\ failure_id' = sqlite_sequence.failures + 1
          /\ hist' = Noted("incidents",
                           Append(Cur.incidents, sqlite_sequence.failures + 1))
          /\ pc' = after_incident(AUTO_RESTART_ENABLED)
          /\ exc' = exc
       \/ /\ Raise("sqlite3.Error", "db.log_failure")
          /\ UNCHANGED <<failures, sqlite_sequence, failure_id, hist>>
    /\ UNCHANGED <<config, conn, call,
                   failed_count, report_generated, results, status,
                   deep_results, restart_result, cmds, now, health_checks>>

\* main.py 87-89: restart_netbird_service is called.
CallRestart ==
    /\ pc = "call_restart"
    /\ pc' = "restart_ps"
    /\ ps' = NotRun
    /\ stop' = NotRun
    /\ start' = NotRun
    /\ cmdlog' = <<>>
    /\ hist' = Noted("restarts", Cur.restarts + 1)
    /\ UNCHANGED <<config, conn, call,
                   failed_count, report_generated, locals, exc, now,
                   store>>

\* ------------------------------------------------- restart_netbird_service

\* Mutant of fallback_result: the exit code of net start alone decides.
fallback_result_start_only(p, st, sa) ==
    IF sa.returncode = 0
    THEN NetResult(st, sa)
    ELSE FailedResult(p, st, sa)

\* netbird_restart.py 51-69: the result once stop and start have run.
fallback_result(p, st, sa) ==
    IF st.returncode = 0 /\ sa.returncode = 0
    THEN NetResult(st, sa)
    ELSE FailedResult(p, st, sa)

\* Mutant of after_ps: the fallback is run after a successful PowerShell
\* restart too.
after_ps_fallthrough(p) == "restart_stop"

\* netbird_restart.py 42: where the call goes once PowerShell has completed.
after_ps(p) == IF p.returncode = 0 THEN "restart_returned" ELSE "restart_stop"

\* netbird_restart.py 32-49: strategy 1, PowerShell Restart-Service; _run
\* raises when the command runs into its timeout.
RunPs(outcomes) ==
    /\ pc = "restart_ps"
    /\ cmdlog' = Append(cmdlog, "powershell")
    /\ \E o \in outcomes :
        IF o.kind = "timeout"
        THEN /\ Raise("TimeoutExpired", "restart_netbird_service")
             /\ UNCHANGED <<ps, restart_result>>
        ELSE /\ ps' = o
             /\ pc' = after_ps(o)
             /\ restart_result' =
                    IF after_ps(o) = "restart_returned"
                    THEN PsResult(o)
                    ELSE restart_result
             /\ exc' = exc
    /\ UNCHANGED <<config, conn, call,
                   failed_count, report_generated, results, status,
                   deep_results, failure_id, stop, start, now, store, hist>>

\* netbird_restart.py 52: strategy 2, net stop.
RunStop(outcomes) ==
    /\ pc = "restart_stop"
    /\ cmdlog' = Append(cmdlog, "net stop")
    /\ \E o \in outcomes :
        IF o.kind = "timeout"
        THEN /\ Raise("TimeoutExpired", "restart_netbird_service")
             /\ stop' = stop
        ELSE /\ stop' = o
             /\ pc' = "restart_start"
             /\ exc' = exc
    /\ UNCHANGED <<config, conn, call,
                   failed_count, report_generated, locals, ps, start,
                   now, store, hist>>

\* netbird_restart.py 53-69: net start, then the result.
RunStart(outcomes) ==
    /\ pc = "restart_start"
    /\ cmdlog' = Append(cmdlog, "net start")
    /\ \E o \in outcomes :
        IF o.kind = "timeout"
        THEN /\ Raise("TimeoutExpired", "restart_netbird_service")
             /\ UNCHANGED <<start, restart_result>>
        ELSE /\ start' = o
             /\ restart_result' = fallback_result(ps, stop, o)
             /\ pc' = "restart_returned"
             /\ exc' = exc
    /\ UNCHANGED <<config, conn, call,
                   failed_count, report_generated, results, status,
                   deep_results, failure_id, ps, stop, now, store, hist>>

\* ------------------------------------------- the polling loop, continued

\* main.py 96-101: get_netbird_status after the restart; its result is
\* logged and not kept. Its _run raises when netbird status runs into the
\* timeout.
GetStatus ==
    /\ pc = "restart_returned"
    /\ \E o \in LoopOutcomes("n") :
        IF o.kind = "timeout"
        THEN Raise("TimeoutExpired", "get_netbird_status")
        ELSE /\ pc' = "update_failure"
             /\ exc' = exc
    /\ UNCHANGED <<config, conn, call,
                   failed_count, report_generated, locals, cmds, now,
                   store, hist>>

\* main.py 102-109: the incident's outcome is written, or the store raises.
UpdateFailure ==
    /\ pc = "update_failure"
    /\ \/ /\ failures' = update_failure(failures, failure_id,
                                        outcome_updates(restart_result, now))
          /\ hist' = Noted("updated", Append(Cur.updated, failure_id))
          /\ pc' = "cooldown"
          /\ exc' = exc
       \/ /\ Raise("sqlite3.Error", "db.update_failure")
          /\ UNCHANGED <<failures, hist>>
    /\ UNCHANGED <<config, conn, call,
                   failed_count, report_generated, locals, cmds, now,
                   health_checks, sqlite_sequence>>

\* Mutant of Cooldown: the routine interval is slept instead of the
\* restart wait.
Cooldown_short ==
    /\ pc = "cooldown"
    /\ now' = now + ROUTINE_CHECK_INTERVAL
    /\ hist' = Noted("cooldowns", Cur.cooldowns + 1)
    /\ pc' = "reset_count"
    /\ UNCHANGED <<config, conn, call,
                   failed_count, report_generated, locals, cmds, exc,
                   store>>

\* main.py 110: the cooldown after a restart attempt.
Cooldown ==
    /\ pc = "cooldown"
    /\ now' = now + RESTART_WAIT_SECONDS
    /\ hist' = Noted("cooldowns", Cur.cooldowns + 1)
    /\ pc' = "reset_count"
    /\ UNCHANGED <<config, conn, call,
                   failed_count, report_generated, locals, cmds, exc,
                   store>>

\* Mutant of ResetCount: the counter is reset after a successful restart
\* only.
ResetCount_on_success ==
    /\ pc = "reset_count"
    /\ failed_count' = IF restart_result.success THEN 0 ELSE failed_count
    /\ pc' = "report"
    /\ UNCHANGED <<config, conn, call,
                   report_generated, locals, cmds, exc, now, store,
                   hist>>

\* main.py 114: the counter is reset at the end of the escalation.
ResetCount ==
    /\ pc = "reset_count"
    /\ failed_count' = 0
    /\ pc' = "report"
    /\ UNCHANGED <<config, conn, call,
                   report_generated, locals, cmds, exc, now, store,
                   hist>>

\* generate_report (report_generator.py 197-206): whether the report takes
\* a fresh deep capture, that is the newest incident holds no deep bundle.
fresh_capture(table) == table = <<>>

\* Mutant of Report: report_generated is not consulted.
Report_repeated ==
    /\ pc = "report"
    /\ IF now >= REPORT_INTERVAL_SECONDS
       THEN /\ hist' = [Noted("deep_calls",
                            IF fresh_capture(failures)
                            THEN Append(Cur.deep_calls, "report")
                            ELSE Cur.deep_calls)
                        EXCEPT ![Len(hist)].reports = @ + 1]
            /\ \/ /\ report_generated' = TRUE
                  /\ pc' = "sleep"
                  /\ exc' = exc
               \/ /\ Raise("TimeoutExpired", "generate_report")
                  /\ report_generated' = report_generated
       ELSE /\ pc' = "sleep"
            /\ UNCHANGED <<report_generated, exc, hist>>
    /\ UNCHANGED <<config, conn, call, failed_count, locals, cmds, now, store>>

\* main.py 116-123: the report, once, when its interval has passed.
\* generate_report raises when a command of its fresh deep capture or its
\* netbird status runs into the timeout.
Report ==
    /\ pc = "report"
    /\ IF ~report_generated /\ now >= REPORT_INTERVAL_SECONDS
       THEN /\ hist' = [Noted("deep_calls",
                            IF fresh_capture(failures)
                            THEN Append(Cur.deep_calls, "report")
                            ELSE Cur.deep_calls)
                        EXCEPT ![Len(hist)].reports = @ + 1]
            /\ \/ /\ report_generated' = TRUE
                  /\ pc' = "sleep"
                  /\ exc' = exc
               \/ /\ Raise("TimeoutExpired", "generate_report")
                  /\ report_generated' = report_generated
       ELSE /\ pc' = "sleep"
            /\ UNCHANGED <<report_generated, exc, hist>>
    /\ UNCHANGED <<config, conn, call, failed_count, locals, cmds, now, store>>

\* main.py 124: the sleep that ends the cycle.
Sleep ==
    /\ pc = "sleep"
    /\ now' = now + ROUTINE_CHECK_INTERVAL
    /\ hist' = Noted("done", TRUE)
    /\ pc' = "run_routine_checks"
    /\ UNCHANGED <<config, conn, call,
                   failed_count, report_generated, locals, cmds, exc,
                   store>>

\* The positions of the loop, inside the try of main.py 28.
Running ==
    {"run_routine_checks", "log_health_check", "count", "gate",
     "run_deep_checks", "log_failure", "call_restart", "restart_ps",
     "restart_stop", "restart_start", "restart_returned", "update_failure",
     "cooldown", "reset_count", "report", "sleep"}

\* An external interrupt: KeyboardInterrupt is raised at the current
\* position (main.py 125-126 catch it).
Interrupt ==
    /\ pc \in Running
    /\ Raise("KeyboardInterrupt", pc)
    /\ UNCHANGED <<config, conn, call,
                   failed_count, report_generated, locals, cmds, now,
                   store, hist>>

Next ==
    \/ RunRoutineChecks
    \/ LogHealthCheck
    \/ Count
    \/ Gate
    \/ RunDeepChecks
    \/ LogFailure
    \/ CallRestart
    \/ RunPs(LoopOutcomes("p"))
    \/ RunStop(LoopOutcomes("s"))
    \/ RunStart(LoopOutcomes("t"))
    \/ GetStatus
    \/ UpdateFailure
    \/ Cooldown
    \/ ResetCount
    \/ Report
    \/ Sleep
    \/ Interrupt

Spec == Init /\ [][Next]_vars

\* The restart action called on its own, with the output texts varied.
InitRestart ==
    /\ ConnectionIdle
    /\ call = NoCall
    /\ RESTART_FAILURE_THRESHOLD = 1
    /\ AUTO_RESTART_ENABLED = TRUE
    /\ pc = "restart_ps"
    /\ failed_count = 0
    /\ report_generated = FALSE
    /\ results = CHOOSE b \in LoopBundles : TRUE
    /\ status = "unassessed"
    /\ deep_results = NoDeep
    /\ failure_id = 0
    /\ restart_result = NoResult
    /\ ps = NotRun
    /\ stop = NotRun
    /\ start = NotRun
    /\ cmdlog = <<>>
    /\ exc = NoException
    /\ now = 0
    /\ health_checks = <<>>
    /\ failures = <<>>
    /\ sqlite_sequence = [health_checks |-> 0, failures |-> 0]
    /\ hist = <<>>

NextRestart ==
    \/ RunPs(CallOutcomes("p"))
    \/ RunStop(CallOutcomes("s"))
    \/ RunStart(CallOutcomes("t"))

SpecRestart == InitRestart /\ [][NextRestart]_vars

\* ------------------------------------------------------------- properties

Cycles == DOMAIN hist

\* The number of consecutive cycles assessed failed that end with cycle k.
RECURSIVE ConsecutiveFailed(_)
ConsecutiveFailed(k) ==
    IF k = 0 \/ hist[k].status # "failed"
    THEN 0
    ELSE 1 + ConsecutiveFailed(k - 1)

\* The same, counted from the last escalation before cycle k.
RECURSIVE FailedSinceEscalation(_)
FailedSinceEscalation(k) ==
    IF k = 0 \/ hist[k].status # "failed"
    THEN 0
    ELSE IF k > 1 /\ hist[k - 1].gate = "escalate"
         THEN 1
         ELSE 1 + FailedSinceEscalation(k - 1)

\* Cycle k is past its escalation test, and past its escalation if any.
Gated(k) == hist[k].gate # "pending"

Settled(k) == k < Len(hist) \/ pc \in {"report", "sleep", "run_routine_checks"}

\* The counter as cycle k left it, once the cycle is settled.
CounterAfter(k) == IF k < Len(hist) THEN hist[k + 1].start_count ELSE failed_count

\* The row of incident id.
Incident(id) == CHOOSE r \in {failures[i] : i \in DOMAIN failures} : r.id = id

\* How often incident id was passed to update_failure in cycle k.
Updates(k, id) ==
    Cardinality({i \in DOMAIN hist[k].updated : hist[k].updated[i] = id})

\* C1: with a threshold T >= 1, a cycle that ends fewer than T consecutive
\* failed cycles creates no incident, and the controller runs neither the
\* deep diagnostics nor the restart action in it.
C1_NoEscalationBelowThreshold ==
    RESTART_FAILURE_THRESHOLD >= 1 =>
        \A k \in Cycles :
            ConsecutiveFailed(k) < RESTART_FAILURE_THRESHOLD =>
                /\ hist[k].gate \in {"pending", "pass"}
                /\ hist[k].incidents = <<>>
                /\ \A i \in DOMAIN hist[k].deep_calls :
                        hist[k].deep_calls[i] # "escalation"
                /\ hist[k].restarts = 0

\* A failed cycle below the threshold has gone by without an escalation.
C1_Witness ==
    /\ RESTART_FAILURE_THRESHOLD >= 2
    /\ \E k \in Cycles :
        /\ hist[k].done
        /\ ConsecutiveFailed(k) >= 1
        /\ ConsecutiveFailed(k) < RESTART_FAILURE_THRESHOLD

\* C2: with a threshold T >= 1, a cycle escalates exactly when it is
\* assessed failed and the counter reaches T in it; a cycle that escalates
\* creates one incident, any other cycle none, and the counter is 0 when
\* the next cycle starts.
C2_EscalationExactlyAtThreshold ==
    RESTART_FAILURE_THRESHOLD >= 1 =>
        \A k \in Cycles :
            /\ Gated(k) =>
                (hist[k].gate = "escalate" <=>
                    /\ hist[k].status = "failed"
                    /\ hist[k].start_count + 1 = RESTART_FAILURE_THRESHOLD)
            /\ Len(hist[k].incidents) <= 1
            /\ hist[k].gate # "escalate" => hist[k].incidents = <<>>
            /\ (Settled(k) /\ hist[k].gate = "escalate") =>
                /\ Len(hist[k].incidents) = 1
                /\ CounterAfter(k) = 0

\* A cycle has escalated after two failed cycles and the next has begun.
C2_Witness ==
    /\ RESTART_FAILURE_THRESHOLD = 2
    /\ \E k \in Cycles :
        /\ k < Len(hist)
        /\ hist[k].gate = "escalate"
        /\ Len(hist[k].incidents) = 1

\* C3: a cycle assessed healthy or degraded leaves the counter at 0,
\* whatever it was, and the counter at the start of a cycle never exceeds
\* the number of consecutive failed cycles before it.
C3_NonFailedResetsCounter ==
    /\ \A k \in Cycles :
        /\ (Gated(k) /\ hist[k].status # "failed") => CounterAfter(k) = 0
        /\ hist[k].start_count <= ConsecutiveFailed(k - 1)

\* A non-failed cycle has reset a counter that stood at 2.
C3_Witness ==
    \E k \in Cycles :
        /\ Gated(k)
        /\ hist[k].status = "degraded"
        /\ hist[k].start_count = 2
        /\ pc = "sleep"

\* C4: once an escalation that called the restart action is over, the
\* counter is 0, whether the restart succeeded or not, and a cycle
\* escalates only after T failed cycles in a row since the last escalation.
C4_CounterResetAfterRestart ==
    \A k \in Cycles :
        /\ (hist[k].restarts > 0 /\ Settled(k)) => CounterAfter(k) = 0
        /\ hist[k].gate = "escalate" =>
                FailedSinceEscalation(k) >= RESTART_FAILURE_THRESHOLD

\* Two escalations are over, one whose restart succeeded and one whose
\* restart failed.
C4_Witness ==
    \E j, k \in Cycles :
        /\ hist[j].restarts > 0 /\ hist[j].done
        /\ hist[k].restarts > 0 /\ hist[k].done
        /\ Incident(hist[j].incidents[1]).restart_successful = Some(1)
        /\ Incident(hist[k].incidents[1]).restart_successful = Some(0)

\* C5: with auto-restart disabled the restart action is never called, and
\* an escalation that is over has created its incident, marked
\* auto_restart_attempted = false, and left the counter at 0.
C5_DisabledStillRecords ==
    ~AUTO_RESTART_ENABLED =>
        /\ cmdlog = <<>>
        /\ \A k \in Cycles :
            /\ hist[k].restarts = 0
            /\ (hist[k].gate = "escalate" /\ Settled(k)) =>
                /\ Len(hist[k].incidents) = 1
                /\ Incident(hist[k].incidents[1]).auto_restart_attempted
                        = bound(Some(FALSE))
                /\ CounterAfter(k) = 0

\* An escalation with auto-restart disabled is over.
C5_Witness ==
    /\ ~AUTO_RESTART_ENABLED
    /\ \E k \in Cycles : hist[k].gate = "escalate" /\ hist[k].done

\* C6 as stated: every incident has received exactly one update_failure
\* call once the cycle of its escalation is complete.
C6_EveryIncidentUpdatedOnce ==
    \A k \in Cycles :
        hist[k].done =>
            \A i \in DOMAIN hist[k].incidents :
                Updates(k, hist[k].incidents[i]) = 1

\* C6, amended: an incident is created with its outcome columns NULL and
\* keeps them NULL until update_failure is called for it; update_failure is
\* called at most once per incident, for the incident of the same
\* escalation; once the cycle of the escalation is complete the incident
\* has received exactly one update when auto-restart is enabled and none
\* when it is disabled.
C6_OutcomeSetOnceWhenRestarting ==
    \A k \in Cycles :
        /\ \A i \in DOMAIN hist[k].updated :
                \E j \in DOMAIN hist[k].incidents :
                    hist[k].incidents[j] = hist[k].updated[i]
        /\ \A i \in DOMAIN hist[k].incidents :
            LET id == hist[k].incidents[i]
            IN  /\ Updates(k, id) <= 1
                /\ Updates(k, id) = 0 =>
                    /\ Incident(id).restart_successful = Null
                    /\ Incident(id).recovery_timestamp = Null
                    /\ Incident(id).notes = Null
                /\ Updates(k, id) = 1 =>
                    /\ Incident(id).restart_successful \in {Some(1), Some(0)}
                    /\ Incident(id).recovery_timestamp # Null
                    /\ Incident(id).notes # Null
                /\ hist[k].done =>
                    Updates(k, id) = IF AUTO_RESTART_ENABLED THEN 1 ELSE 0

\* An incident is pending while its restart runs, and another has had its
\* outcome written in a completed cycle.
C6_Witness ==
    /\ AUTO_RESTART_ENABLED
    /\ pc = "restart_returned"
    /\ Incident(failure_id).restart_successful = Null
    /\ \E k \in Cycles :
        /\ hist[k].done
        /\ Len(hist[k].incidents) = 1
        /\ Updates(k, hist[k].incidents[1]) = 1

\* C7: an exception raised by run_deep_checks or by db.log_failure during
\* an escalation does not end the polling loop.
C7_EscalationErrorKeepsLoop ==
    exc.site \in {"run_deep_checks", "db.log_failure"} => pc \in Running

\* C8: an exception raised by db.log_health_check does not end the daemon;
\* the loop goes on.
C8_HealthWriteErrorKeepsLoop ==
    exc.site = "db.log_health_check" => pc \in Running

\* C9: when PowerShell exits 0, restart_netbird_service runs no other
\* command and returns success with method powershell_restart_service;
\* when it exits non-zero, net stop and net start are run; when they do not
\* both exit 0 the result is success = false, method = failed, with the
\* outputs of the three commands concatenated.
C9_FallbackOrder ==
    /\ pc \in {"restart_stop", "restart_start"} =>
        /\ ps.kind = "completed"
        /\ ps.returncode # 0
    /\ pc = "restart_returned" =>
        /\ ps.returncode = 0 =>
            /\ cmdlog = <<"powershell">>
            /\ restart_result.success
            /\ restart_result.method = "powershell_restart_service"
        /\ ps.returncode # 0 =>
            /\ cmdlog = <<"powershell", "net stop", "net start">>
            /\ (stop.returncode = 0 /\ start.returncode = 0) =>
                /\ restart_result.success
                /\ restart_result.method = "net_stop_start"
            /\ (stop.returncode # 0 \/ start.returncode # 0) =>
                /\ ~restart_result.success
                /\ restart_result.method = "failed"
                /\ restart_result.stdout =
                        strip(ps.stdout \o stop.stdout \o start.stdout)
                /\ restart_result.stderr =
                        strip(ps.stderr \o stop.stderr \o start.stderr)

\* Both strategies have failed and the result carries the output of all
\* three commands.
C9_Witness ==
    /\ pc = "restart_returned"
    /\ restart_result.method = "failed"
    /\ restart_result.stdout = <<"p", "\n", "s", "\n", "t">>
    /\ restart_result.stderr = <<"p", "!", "\n", "s", "!", "\n", "t", "!">>

\* C10: a restart command that runs into its timeout counts as a failed
\* attempt; no exception leaves restart_netbird_service.
C10_TimeoutIsFailedAttempt ==
    exc.site # "restart_netbird_service"

\* C11: an escalation calls the restart action at most once; when the
\* restart has exhausted its strategies (method = failed) the incident of
\* that escalation is updated with restart_successful = false and the loop
\* goes on: the daemon ends by an exception only, never by a restart result.
C11_ExhaustedRestartRecorded ==
    /\ \A k \in Cycles : hist[k].restarts <= 1
    /\ (/\ pc \in {"cooldown", "reset_count", "report", "sleep"}
        /\ Cur.restarts = 1
        /\ restart_result.method = "failed") =>
            /\ Cur.updated = <<failure_id>>
            /\ Incident(failure_id).restart_successful = bound(Some(FALSE))
    /\ pc \notin Running => exc.type # "none"

\* A restart has exhausted its strategies, its incident says so and the
\* next cycle has started.
C11_Witness ==
    /\ pc = "log_health_check"
    /\ restart_result.method = "failed"
    /\ Len(hist) >= 2
    /\ hist[Len(hist) - 1].restarts = 1
    /\ Incident(failure_id).restart_successful = bound(Some(FALSE))

\* The clock reading of cycle k's routine checks, as its health-check row
\* holds it.
CycleTime(k) == health_checks[k].timestamp

\* C12: between the routine checks of a cycle and those of the next lie
\* the routine interval and, exactly when the cycle called the restart
\* action, the restart wait: a cooldown for every restart attempt, none
\* without one.
C12_CooldownAfterEveryRestart ==
    \A k \in Cycles :
        /\ Settled(k) => hist[k].cooldowns = hist[k].restarts
        /\ k + 1 <= Len(health_checks) =>
            CycleTime(k + 1) - CycleTime(k) =
                ROUTINE_CHECK_INTERVAL + hist[k].restarts * RESTART_WAIT_SECONDS

\* A cycle with a restart attempt and a cycle without one have both been
\* followed by the next cycle's routine checks.
C12_Witness ==
    \E j, k \in Cycles :
        /\ j + 1 <= Len(health_checks)
        /\ k + 1 <= Len(health_checks)
        /\ hist[j].restarts = 1
        /\ hist[k].restarts = 0
        /\ hist[k].status = "failed"

\* ------------------------------------------------------- the assessor alone

\* The loop's configuration, counter, command and clock state before the
\* first cycle.
LoopAtRest ==
    /\ RESTART_FAILURE_THRESHOLD = 1
    /\ AUTO_RESTART_ENABLED = TRUE
    /\ failed_count = 0
    /\ report_generated = FALSE
    /\ deep_results = NoDeep
    /\ failure_id = 0
    /\ restart_result = NoResult
    /\ ps = NotRun
    /\ stop = NotRun
    /\ start = NotRun
    /\ cmdlog = <<>>
    /\ exc = NoException
    /\ now = 0
    /\ hist = <<>>

\* The store after initialize() on a new file.
EmptyStore ==
    /\ health_checks = <<>>
    /\ failures = <<>>
    /\ sqlite_sequence = [health_checks |-> 0, failures |-> 0]

\* assess_health applied to a bundle of any configuration.
InitAssess ==
    /\ ConnectionIdle
    /\ call = NoCall
    /\ LoopAtRest
    /\ EmptyStore
    /\ pc = "assess_health"
    /\ results \in AssessBundles
    /\ status = "unassessed"

AssessHealth ==
    /\ pc = "assess_health"
    /\ status' = assess_health(results)
    /\ pc' = "assessed"
    /\ UNCHANGED <<config, conn, call, failed_count, report_generated, results,
                   deep_results, failure_id, restart_result, cmds, exc, now,
                   store, hist>>

NextAssess == AssessHealth

SpecAssess == InitAssess /\ [][NextAssess]_vars

\* C13: a bundle whose process is not running, or whose process data is
\* missing, is assessed failed whatever its services are.
C13_NotRunningIsFailed ==
    (pc = "assessed" /\ results.process # Some(TRUE)) => status = "failed"

\* A bundle without process data and with every service reachable has
\* been assessed.
C13_Witness ==
    /\ pc = "assessed"
    /\ results.process = Null
    /\ Len(results.keys) >= 2
    /\ \A k \in DOMAIN results.services : results.services[k]
    /\ status = "failed"

\* C14: with the process running and at least one service configured, the
\* status is healthy when every service is reachable, degraded when some
\* but not all are, failed when none is.
C14_RunningFollowsServices ==
    (pc = "assessed" /\ results.process = Some(TRUE) /\ results.keys # <<>>) =>
        LET up == {k \in DOMAIN results.services : results.services[k]}
        IN  status = IF up = DOMAIN results.services THEN "healthy"
                     ELSE IF up # {} THEN "degraded"
                     ELSE "failed"

\* A running process with some but not all of three services reachable
\* has been assessed degraded.
C14_Witness ==
    /\ pc = "assessed"
    /\ results.process = Some(TRUE)
    /\ Len(results.keys) = 3
    /\ ~results.services[ServiceKey(1)]
    /\ results.services[ServiceKey(2)]
    /\ status = "degraded"

\* C15 as stated: a running process with an empty service set is assessed
\* healthy.
C15_EmptySetIsHealthy ==
    (pc = "assessed" /\ results.process = Some(TRUE) /\ results.keys = <<>>) =>
        status = "healthy"

\* C15: a running process with an empty service set is assessed failed:
\* both any-reachable and all-reachable are false of an empty set.
C15_EmptySetIsFailed ==
    (pc = "assessed" /\ results.process = Some(TRUE) /\ results.keys = <<>>) =>
        status = "failed"

\* A running process with no service configured has been assessed.
C15_Witness ==
    /\ pc = "assessed"
    /\ results.process = Some(TRUE)
    /\ results.keys = <<>>
    /\ status # "unassessed"

\* ------------------------------------------------- the incident table alone

\* The incidents log_failure is called with: the one main() records, and
\* one that names neither severity nor auto_restart_attempted.
IncidentData ==
    {[timestamp |-> 0,
      failure_type |-> "auto_detected",
      severity |-> Some("critical"),
      diagnostics |-> [routine |-> CHOOSE b \in LoopBundles : TRUE,
                       deep |-> NoDeep],
      auto_restart_attempted |-> Some(TRUE)],
     [timestamp |-> 1,
      failure_type |-> "reported",
      diagnostics |-> [routine |-> CHOOSE b \in LoopBundles : TRUE,
                       deep |-> NoDeep]]}

\* The updates update_failure is called with: none, a successful outcome
\* with a note, the three outcome fields main() sets, and another column.
UpdateSets ==
    {<<>>,
     << <<"restart_successful", Some(TRUE)>>, <<"notes", Some(<<"o", "k">>)>> >>,
     << <<"restart_successful", Some(FALSE)>>,
        <<"recovery_timestamp", Some(1)>>,
        <<"notes", Some(<<"e">>)>> >>,
     << <<"severity", Some("low")>> >>}

InitIncidents ==
    /\ ConnectionIdle
    /\ call = NoCall
    /\ LoopAtRest
    /\ EmptyStore
    /\ pc = "store"
    /\ results = CHOOSE b \in LoopBundles : TRUE
    /\ status = "unassessed"

\* db.log_failure(data).
LogFailureCall ==
    /\ pc = "store"
    /\ Len(failures) < MaxRows
    /\ \E data \in IncidentData :
        /\ failures' = Append(failures,
                              failure_row(sqlite_sequence.failures, data))
        /\ sqlite_sequence' = [sqlite_sequence EXCEPT !.failures = @ + 1]
        /\ call' = [IncidentCall("log_failure") EXCEPT
                                  !.result = <<sqlite_sequence.failures + 1>>,
                                  !.before = failures]
    /\ UNCHANGED <<config, conn, pc, failed_count, report_generated, locals,
                   cmds, exc, now, health_checks, hist>>

\* db.update_failure(failure_id, updates), of an incident or of an
\* identifier no incident has.
UpdateFailureCall ==
    /\ pc = "store"
    /\ \E id \in 1 .. MaxRows + 1, updates \in UpdateSets :
        /\ failures' = update_failure(failures, id, updates)
        /\ call' = [IncidentCall("update_failure") EXCEPT
                                  !.id = id,
                                  !.updates = updates,
                                  !.before = failures]
    /\ UNCHANGED <<config, conn, pc, failed_count, report_generated, locals,
                   cmds, exc, now, health_checks, sqlite_sequence, hist>>

\* db.get_recent_failures(limit).
GetRecentFailuresCall ==
    /\ pc = "store"
    /\ \E limit \in 0 .. MaxRows :
        \E rows \in get_recent(failures, limit) :
            call' = [IncidentCall("get_recent_failures") EXCEPT
                        !.limit = limit,
                        !.result = rows,
                        !.before = failures]
    /\ UNCHANGED <<config, conn, pc, failed_count, report_generated, locals,
                   cmds, exc, now, store, hist>>

\* Mutant of ClearAllCall: the identifier counters are deleted with the
\* rows.
ClearAllCall_reset ==
    /\ pc = "store"
    /\ call.clears < MaxClears
    /\ health_checks' = <<>>
    /\ failures' = <<>>
    /\ windows_events' = <<>>
    /\ meta_logs' = <<>>
    /\ sqlite_sequence' = [health_checks |-> 0, failures |-> 0]
    /\ call' = [NewCall("clear_all") EXCEPT !.clears = @ + 1]
    /\ UNCHANGED <<config, pc, failed_count, report_generated, locals, cmds,
                   exc, now, hist, lock, thr, uncommitted, durable>>

\* db.clear_all(), by the store's one caller: the rows of the four tables
\* are deleted; the sqlite_sequence rows of the AUTOINCREMENT columns are
\* not.
ClearAllCall ==
    /\ pc = "store"
    /\ call.clears < MaxClears
    /\ health_checks' = <<>>
    /\ failures' = <<>>
    /\ windows_events' = <<>>
    /\ meta_logs' = <<>>
    /\ sqlite_sequence' = sqlite_sequence
    /\ call' = [NewCall("clear_all") EXCEPT !.clears = @ + 1]
    /\ UNCHANGED <<config, pc, failed_count, report_generated, locals, cmds,
                   exc, now, hist, lock, thr, uncommitted, durable>>

NextIncidents ==
    \/ LogFailureCall
    \/ UpdateFailureCall
    \/ GetRecentFailuresCall

SpecIncidents == InitIncidents /\ [][NextIncidents]_vars

\* The columns an update names.
Named(updates) == {updates[j][1] : j \in DOMAIN updates}

\* C19: after update_failure(id, U) the incident id holds the values of U
\* in the columns U names and its former values in every other column,
\* and every other incident is as it was.
C19_PartialUpdateFrame ==
    call.op = "update_failure" =>
        /\ Len(failures) = Len(call.before)
        /\ \A i \in DOMAIN failures :
            LET old == call.before[i]
                new == failures[i]
            IN  IF old.id = call.id
                THEN /\ \A j \in DOMAIN call.updates :
                            new[call.updates[j][1]] =
                                stored(call.updates[j][1], call.updates[j][2])
                     /\ \A c \in DOMAIN old \ Named(call.updates) :
                            new[c] = old[c]
                ELSE new = old

\* The first of two pending incidents has been updated with a successful
\* outcome and a note.
C19_Witness ==
    /\ call.op = "update_failure"
    /\ call.id = 1
    /\ Named(call.updates) = {"restart_successful", "notes"}
    /\ Len(failures) = 2
    /\ call.before[1].restart_successful = Null
    /\ failures[1].restart_successful = Some(1)
    /\ failures[1].notes = Some(<<"o", "k">>)
    /\ failures[1].severity = Some("critical")
    /\ failures[2].restart_successful = Null

\* --------------------------------------------- the health-check table alone

\* The bundles health checks are written from: those of the loop and one
\* of a configuration without services.
CheckBundles ==
    LoopBundles \cup {[process |-> Some(TRUE), keys |-> <<>>, services |-> <<>>]}

InitChecks ==
    /\ ConnectionIdle
    /\ call = NoCall
    /\ LoopAtRest
    /\ EmptyStore
    /\ pc = "store"
    /\ results = CHOOSE b \in LoopBundles : TRUE
    /\ status = "unassessed"

\* db.log_health_check(summarize_health_check(results, status)) of a cycle
\* (main.py 30-33); the clock has moved on by the cycle's sleep before the
\* next one (main.py 124).
LogHealthCheckCall ==
    /\ pc = "store"
    /\ Len(health_checks) < MaxRows
    /\ sqlite_sequence.health_checks < MaxIds
    /\ \E b \in CheckBundles :
        LET data == summarize_health_check(b, assess_health(b), now)
        IN  /\ health_checks' = Append(health_checks,
                    health_check_row(sqlite_sequence.health_checks, data))
            /\ call' = [NewCall("log_health_check") EXCEPT
                            !.data = data,
                            !.result = <<sqlite_sequence.health_checks + 1>>,
                            !.before = health_checks,
                            !.issued =
                                Append(@, sqlite_sequence.health_checks + 1)]
    /\ sqlite_sequence' = [sqlite_sequence EXCEPT !.health_checks = @ + 1]
    /\ now' = now + ROUTINE_CHECK_INTERVAL
    /\ UNCHANGED <<config, conn, pc, failed_count, report_generated, locals,
                   cmds, exc, failures, hist>>

\* db.get_recent_health_checks(limit).
GetRecentHealthChecksCall ==
    /\ pc = "store"
    /\ \E limit \in 0 .. MaxRows :
        \E rows \in get_recent(health_checks, limit) :
            call' = [NewCall("get_recent_health_checks") EXCEPT
                        !.limit = limit,
                        !.result = rows,
                        !.before = health_checks]
    /\ UNCHANGED <<config, conn, pc, failed_count, report_generated, locals,
                   cmds, exc, now, store, hist>>

NextChecks ==
    \/ LogHealthCheckCall
    \/ GetRecentHealthChecksCall
    \/ ClearAllCall

SpecChecks == InitChecks /\ [][NextChecks]_vars

\* C20: get_recent_health_checks(1) right after log_health_check(record)
\* returns one row, the one that write inserted, with the record's columns
\* (a boolean as the integer 1 or 0 the column holds for it), and json.loads of its services_status has the keys and the values of
\* the services_status written.
C20_HealthCheckRoundTrip ==
    (/\ call.op = "get_recent_health_checks"
     /\ call.limit = 1
     /\ call.last.op = "log_health_check") =>
        /\ Len(call.result) = 1
        /\ LET row == call.result[1]
               written == call.last.data
               read == json_loads(row.services_status)
           IN  /\ <<row.id>> = call.last.result
               /\ row.timestamp = written.timestamp
               /\ row.netbird_running = bound(written.netbird_running)
               /\ row.system_healthy = bound(Some(written.system_healthy))
               /\ DOMAIN read.values = DOMAIN written.services_status.values
               /\ \A k \in DOMAIN read.values :
                    read.values[k] = written.services_status.values[k]

\* A record of two services, one reachable and one not, has been written
\* after another record and read back.
C20_Witness ==
    /\ call.op = "get_recent_health_checks"
    /\ call.limit = 1
    /\ call.last.op = "log_health_check"
    /\ Len(health_checks) >= 2
    /\ Len(call.result) = 1
    /\ LET read == json_loads(call.result[1].services_status)
       IN  /\ DOMAIN read.values = Services
           /\ read.values["svc-a"]
           /\ ~read.values["203.0.113.5"]

\* ------------------------------------------- the store among its callers

\* The store calls the callers make.
ConcurrentOps ==
    {"log_health_check", "log_meta_log", "get_recent_health_checks",
     "clear_all"}

\* The tables clear_all deletes from, in its order.
ClearOrder == <<"health_checks", "failures", "windows_events", "meta_logs">>

\* The tables as a statement on the connection sees them.
Tables ==
    [health_checks |-> health_checks, failures |-> failures,
     windows_events |-> windows_events, meta_logs |-> meta_logs]

InitCallers ==
    /\ ConnectionIdle
    /\ call = NoCall
    /\ LoopAtRest
    /\ health_checks = <<>>
    /\ failures = <<>>
    /\ sqlite_sequence = [health_checks |-> 0, failures |-> 0, meta_logs |-> 0]
    /\ pc = "store"
    /\ results = CHOOSE b \in LoopBundles : TRUE
    /\ status = "unassessed"

\* A caller enters a store call: its first (or only) _execute is ahead.
Call(t) ==
    /\ thr[t].pc = "idle"
    /\ thr[t].calls < MaxCalls
    /\ \E op \in ConcurrentOps, limit \in {1, 200} :
        /\ op # "get_recent_health_checks" => limit = 200
        /\ thr' = [thr EXCEPT ![t] =
                        [pc |-> "acquire", op |-> op, step |-> 1,
                         calls |-> @.calls + 1, limit |-> limit,
                         cursor |-> NoCursor]]
    /\ UNCHANGED <<config, pc, failed_count, report_generated, locals, cmds,
                   exc, now, store, hist, call, windows_events, meta_logs,
                   lock, uncommitted, durable>>

\* Mutant of free: the lock is entered whoever holds it.
free_always(l) == TRUE

\* threading.Lock: it can be acquired when no caller holds it.
free(l) == l = Null

\* database.py 46: with self._lock, entered.
Acquire(t) ==
    /\ thr[t].pc = "acquire"
    /\ free(lock)
    /\ lock' = Some(t)
    /\ thr' = [thr EXCEPT ![t].pc = "execute"]
    /\ UNCHANGED <<config, pc, failed_count, report_generated, locals, cmds,
                   exc, now, store, hist, call, windows_events, meta_logs,
                   uncommitted, durable>>

\* The statement of a caller's store call, as the open transaction holds it.
Statement(t) == [thread |-> t, op |-> thr[t].op, step |-> thr[t].step]

\* database.py 47: conn.execute(query, params) of the caller's statement.
\* An INSERT or DELETE changes the tables in the connection's transaction;
\* a SELECT ... ORDER BY timestamp sorts the table in the statement's first
\* step, which execute takes, so the cursor holds its rows from here on.
Execute(t) ==
    /\ thr[t].pc = "execute"
    /\ CASE thr[t].op = "log_health_check" ->
              /\ health_checks' = Append(health_checks,
                    health_check_row(sqlite_sequence.health_checks,
                        summarize_health_check(results, "healthy", now)))
              /\ sqlite_sequence' =
                    [sqlite_sequence EXCEPT !.health_checks = @ + 1]
              /\ now' = now + 1
              /\ uncommitted' = Append(uncommitted, Statement(t))
              /\ thr' = [thr EXCEPT ![t].pc = "commit"]
              /\ UNCHANGED <<failures, windows_events, meta_logs>>
         [] thr[t].op = "log_meta_log" ->
              /\ meta_logs' = Append(meta_logs,
                    [id |-> sqlite_sequence.meta_logs + 1,
                     timestamp |-> now,
                     level |-> "INFO"])
              /\ sqlite_sequence' =
                    [sqlite_sequence EXCEPT !.meta_logs = @ + 1]
              /\ now' = now + 1
              /\ uncommitted' = Append(uncommitted, Statement(t))
              /\ thr' = [thr EXCEPT ![t].pc = "commit"]
              /\ UNCHANGED <<health_checks, failures, windows_events>>
         [] thr[t].op = "get_recent_health_checks" ->
              /\ \E rows \in get_recent(health_checks, thr[t].limit) :
                    thr' = [thr EXCEPT
                                ![t].pc = "commit",
                                ![t].cursor =
                                    [rows |-> rows,
                                     snapshot |-> durable.health_checks]]
              /\ UNCHANGED <<store, windows_events, meta_logs, now,
                             uncommitted>>
         [] thr[t].op = "clear_all" ->
              LET cleared == [Tables EXCEPT ![ClearOrder[thr[t].step]] = <<>>]
              IN  /\ health_checks' = cleared.health_checks
                  /\ failures' = cleared.failures
                  /\ windows_events' = cleared.windows_events
                  /\ meta_logs' = cleared.meta_logs
                  /\ uncommitted' = Append(uncommitted, Statement(t))
                  /\ thr' = [thr EXCEPT ![t].pc = "commit"]
                  /\ UNCHANGED <<sqlite_sequence, now>>
    /\ UNCHANGED <<config, pc, failed_count, report_generated, locals, cmds,
                   exc, hist, call, lock, durable>>

\* database.py 48: conn.commit() ends the connection's transaction,
\* whatever statements it holds.
Commit(t) ==
    /\ thr[t].pc = "commit"
    /\ durable' = Tables
    /\ uncommitted' = <<>>
    /\ thr' = [thr EXCEPT ![t].pc = "release"]
    /\ UNCHANGED <<config, pc, failed_count, report_generated, locals, cmds,
                   exc, now, store, hist, call, windows_events, meta_logs,
                   lock>>

\* database.py 46-49: the with block is left and _execute returns the
\* cursor: a write is done, a read goes on to fetchall, clear_all to its
\* next _execute.
Release(t) ==
    /\ thr[t].pc = "release"
    /\ lock' = Null
    /\ thr' = [thr EXCEPT ![t] =
                CASE @.op = "get_recent_health_checks" ->
                        [@ EXCEPT !.pc = "fetchall"]
                  [] @.op = "clear_all" /\ @.step < Len(ClearOrder) ->
                        [@ EXCEPT !.pc = "acquire", !.step = @ + 1]
                  [] OTHER -> [@ EXCEPT !.pc = "idle"]]
    /\ UNCHANGED <<config, pc, failed_count, report_generated, locals, cmds,
                   exc, now, store, hist, call, windows_events, meta_logs,
                   uncommitted, durable>>

\* Mutant of Fetchall: the cursor reads the table when its rows are
\* fetched.
Fetchall_lazy(t) ==
    /\ thr[t].pc = "fetchall"
    /\ \E rows \in get_recent(health_checks, thr[t].limit) :
        thr' = [thr EXCEPT ![t].pc = "idle", ![t].cursor.rows = rows]
    /\ UNCHANGED <<config, pc, failed_count, report_generated, locals, cmds,
                   exc, now, store, hist, call, windows_events, meta_logs,
                   lock, uncommitted, durable>>

\* database.py 177: list(cursor.fetchall()), outside the lock: the rows
\* the cursor holds are returned.
Fetchall(t) ==
    /\ thr[t].pc = "fetchall"
    /\ thr' = [thr EXCEPT ![t].pc = "idle"]
    /\ UNCHANGED <<config, pc, failed_count, report_generated, locals, cmds,
                   exc, now, store, hist, call, windows_events, meta_logs,
                   lock, uncommitted, durable>>

NextCallers ==
    \E t \in Threads :
        \/ Call(t)
        \/ Acquire(t)
        \/ Execute(t)
        \/ Commit(t)
        \/ Release(t)
        \/ Fetchall(t)

SpecCallers == InitCallers /\ [][NextCallers]_vars

\* The callers between the acquisition and the release of the lock.
Inside == {t \in Threads : thr[t].pc \in {"execute", "commit", "release"}}

\* C16: at most one caller is between the acquisition and the release of
\* the lock, and the connection's open transaction holds at most one
\* statement, that of the lock's holder, who commits it next: no caller
\* commits or sees a statement of another.
C16_WritesSerialized ==
    /\ Cardinality(Inside) <= 1
    /\ Len(uncommitted) <= 1
    /\ \A i \in DOMAIN uncommitted :
        /\ lock = Some(uncommitted[i].thread)
        /\ thr[uncommitted[i].thread].pc = "commit"
        /\ uncommitted[i] = Statement(uncommitted[i].thread)

\* A caller's insert is in the open transaction while the other caller
\* waits for the lock with a write of its own.
C16_Witness ==
    \E t, u \in Threads :
        /\ t # u
        /\ thr[t].pc = "commit"
        /\ thr[t].op = "log_health_check"
        /\ uncommitted = <<Statement(t)>>
        /\ thr[u].pc = "acquire"
        /\ thr[u].op = "log_meta_log"

Clearing(t) ==
    /\ thr[t].op = "clear_all"
    /\ \/ thr[t].step = 1 /\ thr[t].pc \in {"commit", "release"}
       \/ thr[t].step > 1 /\ thr[t].pc \in {"acquire", "execute", "commit"}

\* C18: while a clear_all is between its first deletion and its last, no
\* other caller is between the acquisition and the release of the lock,
\* where it writes to the store or reads it.
C18_ClearAllIsOneTransaction ==
    \A t \in Threads : Clearing(t) => Inside \subseteq {t}

\* ------------------------------------------------- the loop, further claims

\* How far an escalation has come at a position of the loop: 1 before the
\* deep capture, 2 before the incident's creation, 3 before and in the
\* restart action, 4 before the status query, 5 before the incident's
\* update, 6 before the cooldown, 7 before the counter's reset, 8 after it.
Stage(p) ==
    CASE p = "run_deep_checks" -> 1
      [] p = "log_failure" -> 2
      [] p \in {"call_restart", "restart_ps", "restart_stop", "restart_start"} -> 3
      [] p = "restart_returned" -> 4
      [] p = "update_failure" -> 5
      [] p = "cooldown" -> 6
      [] p = "reset_count" -> 7
      [] p \in {"report", "sleep"} -> 8
      [] OTHER -> 0

\* C29: in an escalation with auto-restart enabled each step has been
\* taken exactly when the position is past it, so the steps come in the
\* order deep capture, incident creation, restart action, status query,
\* incident update, cooldown, counter reset; the update is of the
\* identifier the escalation's own incident creation returned.
C29_EscalationStepOrder ==
    (AUTO_RESTART_ENABLED /\ Stage(pc) >= 1 /\ Cur.gate = "escalate") =>
        LET s == Stage(pc)
        IN  /\ ("escalation" \in {Cur.deep_calls[i] : i \in DOMAIN Cur.deep_calls})
                <=> s >= 2
            /\ Cur.incidents = IF s >= 3 THEN <<failure_id>> ELSE <<>>
            /\ s >= 3 => failure_id = failures[Len(failures)].id
            /\ Cur.restarts = IF s >= 4 \/ (s = 3 /\ pc # "call_restart")
                              THEN 1 ELSE 0
            /\ s >= 4 => restart_result.method # "unassigned"
            /\ Cur.updated = IF s >= 6 THEN <<failure_id>> ELSE <<>>
            /\ s >= 3 =>
                (Incident(failure_id).restart_successful # Null <=> s >= 6)
            /\ Cur.cooldowns = IF s >= 7 THEN 1 ELSE 0
            /\ IF s >= 8 THEN failed_count = 0
               ELSE failed_count >= RESTART_FAILURE_THRESHOLD

\* A second escalation has run through all its steps and reset the counter.
C29_Witness ==
    /\ AUTO_RESTART_ENABLED
    /\ pc = "report"
    /\ Cur.gate = "escalate"
    /\ failure_id = 2
    /\ Cur.updated = <<2>>
    /\ Cur.cooldowns = 1
    /\ failed_count = 0

\* C30: with a threshold T >= 1 the counter is between 0 and T - 1 at the
\* start of every cycle.
C30_CounterBelowThresholdAtCycleStart ==
    RESTART_FAILURE_THRESHOLD >= 1 =>
        /\ \A k \in Cycles :
            /\ 0 <= hist[k].start_count
            /\ hist[k].start_count <= RESTART_FAILURE_THRESHOLD - 1
        /\ pc = "run_routine_checks" =>
            /\ 0 <= failed_count
            /\ failed_count <= RESTART_FAILURE_THRESHOLD - 1

\* With auto-restart disabled and threshold 2, a cycle has started after
\* an escalation and one has started with the counter at 1.
C30_Witness ==
    /\ ~AUTO_RESTART_ENABLED
    /\ RESTART_FAILURE_THRESHOLD = 2
    /\ \E j, k \in Cycles :
        /\ j < k
        /\ hist[j].gate = "escalate"
        /\ hist[j].start_count = 1
        /\ hist[k].start_count = 0

\* ------------------------------------------------ the store, further claims

\* Row x was inserted before row y.
InsertedBefore(x, y) == x.id < y.id

\* C21 as stated: a read of the newest limit incidents returns at most
\* limit rows, newest first, rows of equal timestamp in the order of their
\* insertion, and it is the one result the table's contents allow.
C21_ReadOrderDeterministic ==
    call.op = "get_recent_failures" =>
        /\ Len(call.result) <= call.limit
        /\ \A i, j \in DOMAIN call.result :
            i < j =>
                \/ call.result[i].timestamp > call.result[j].timestamp
                \/ /\ call.result[i].timestamp = call.result[j].timestamp
                   /\ InsertedBefore(call.result[i], call.result[j])
        /\ Cardinality(get_recent(call.before, call.limit)) = 1

\* The identifiers a table's inserts have returned grow strictly.
Increasing(ids) == \A i, j \in DOMAIN ids : i < j => ids[i] < ids[j]

\* C22: the identifiers the inserts into a table have returned grow
\* strictly, also across a clear_all, and every row carries the
\* identifier its insert returned: none is used twice.
C22_IdentifiersNeverReused ==
    /\ Increasing(call.issued)
    /\ \A i \in DOMAIN health_checks :
        \E j \in DOMAIN call.issued : health_checks[i].id = call.issued[j]
    /\ \A i, j \in DOMAIN health_checks :
        i # j => health_checks[i].id # health_checks[j].id
    /\ call.op = "log_health_check" =>
        /\ call.result = <<call.issued[Len(call.issued)]>>
        /\ health_checks[Len(health_checks)].id = call.result[1]

\* Two rows were inserted, the table was cleared, and the next insert has
\* returned 3.
C22_Witness ==
    /\ call.op = "log_health_check"
    /\ call.clears = 1
    /\ call.before = <<>>
    /\ call.issued = <<1, 2, 3>>
    /\ Len(health_checks) = 1
    /\ health_checks[1].id = 3

\* ------------------------------------------------------ the logging handler

\* What db.log_meta_log can do in a call: insert the row and return, or
\* raise: sqlite3.Error from the statement or the commit, TypeError from
\* json.dumps of details that are not serializable.
MetaLogOutcomes == {"returned", "sqlite3.Error", "TypeError"}

\* The exception classes below Exception; KeyboardInterrupt and SystemExit
\* are not.
ExceptionClasses == {"Exception", "sqlite3.Error", "TypeError"}

\* Mutant of caught: the handler's clause is except sqlite3.Error.
caught_sqlite_only(type) == type = "sqlite3.Error"

\* app_logger.py 32: except Exception catches an exception of this type.
caught(type) == type \in ExceptionClasses

\* The levels main() logs at.
Levels == {"INFO", "WARNING"}

InitEmit ==
    /\ ConnectionIdle
    /\ call = NoCall
    /\ LoopAtRest
    /\ health_checks = <<>>
    /\ failures = <<>>
    /\ sqlite_sequence = [health_checks |-> 0, failures |-> 0, meta_logs |-> 0]
    /\ pc = "logger"
    /\ results = CHOOSE b \in LoopBundles : TRUE
    /\ status = "unassessed"

\* logger.info or logger.warning of the loop: the record reaches the
\* handler; call.id counts the records.
Log ==
    /\ pc = "logger"
    /\ call.id < MaxLogs
    /\ \E level \in Levels :
        call' = [NoCall EXCEPT !.op = "emit", !.data = level,
                               !.id = call.id + 1]
    /\ pc' = "emit"
    /\ UNCHANGED <<config, conn, failed_count, report_generated, locals,
                   cmds, exc, now, store, hist>>

\* app_logger.py 18-34: SQLiteHandler.emit: db.log_meta_log inserts the
\* row, or raises and the except clause decides whether emit returns.
Emit ==
    /\ pc = "emit"
    /\ \E outcome \in MetaLogOutcomes :
        /\ call' = [call EXCEPT !.result = <<outcome>>, !.before = meta_logs]
        /\ IF outcome = "returned"
           THEN /\ meta_logs' = Append(meta_logs,
                        [id |-> sqlite_sequence.meta_logs + 1,
                         timestamp |-> now,
                         level |-> call.data])
                /\ sqlite_sequence' =
                        [sqlite_sequence EXCEPT !.meta_logs = @ + 1]
                /\ pc' = "logger"
                /\ exc' = exc
           ELSE /\ UNCHANGED <<meta_logs, sqlite_sequence>>
                /\ IF caught(outcome)
                   THEN /\ pc' = "logger"
                        /\ exc' = exc
                   ELSE Raise(outcome, "SQLiteHandler.emit")
    /\ UNCHANGED <<config, failed_count, report_generated, locals, cmds, now,
                   health_checks, failures, hist, windows_events, lock, thr,
                   uncommitted, durable>>

NextEmit ==
    \/ Log
    \/ Emit

SpecEmit == InitEmit /\ [][NextEmit]_vars

\* C23: whatever db.log_meta_log does, emit returns to the loop's logging
\* call: no exception leaves the handler, and a failed write leaves the
\* meta-log table as it was.
C23_EmitSwallowsWriteFailure ==
    /\ pc \in {"logger", "emit"}
    /\ exc = NoException
    /\ (pc = "logger" /\ call.op = "emit" /\ call.result # <<"returned">>) =>
            meta_logs = call.before

\* Both kinds of failure have been swallowed and a later record was
\* written.
C23_Witness ==
    /\ pc = "logger"
    /\ call.op = "emit"
    /\ call.result = <<"TypeError">>
    /\ call.id = 3
    /\ Len(meta_logs) = 1

\* ------------------------------------------- an interrupt during a write

\* The loop between two health-check writes, the store's only caller.
InitCancel ==
    /\ ConnectionIdle
    /\ call = NoCall
    /\ LoopAtRest
    /\ health_checks = <<>>
    /\ failures = <<>>
    /\ sqlite_sequence = [health_checks |-> 0, failures |-> 0, meta_logs |-> 0]
    /\ pc = "cycle"
    /\ results = CHOOSE b \in LoopBundles : TRUE
    /\ status = "unassessed"

\* main.py 30-33: the cycle's bundle is there and db.log_health_check is
\* called; call.id counts these calls.
EnterWrite ==
    /\ pc = "cycle"
    /\ thr["loop"].calls < MaxCalls
    /\ \E b \in LoopBundles : results' = b
    /\ thr' = [thr EXCEPT !["loop"] =
                    [pc |-> "acquire", op |-> "log_health_check", step |-> 1,
                     calls |-> @.calls + 1, limit |-> 0, cursor |-> NoCursor]]
    /\ call' = [call EXCEPT !.id = @ + 1]
    /\ pc' = "log_health_check"
    /\ UNCHANGED <<config, failed_count, report_generated, status,
                   deep_results, failure_id, restart_result, cmds, exc, now,
                   store, hist, windows_events, meta_logs, lock, uncommitted,
                   durable>>

\* db.log_health_check has returned and the cycle goes on.
WriteReturned ==
    /\ pc = "log_health_check"
    /\ thr["loop"].pc = "idle"
    /\ pc' = "cycle"
    /\ UNCHANGED <<config, conn, call, failed_count, report_generated,
                   locals, cmds, exc, now, store, hist>>

\* KeyboardInterrupt is raised in the loop, between two writes or at a
\* step of _execute: the with block, if entered, releases the lock on the
\* way out, and main.py 125-126 call logger.info, whose handler calls
\* db.log_meta_log. call.data holds where in the write the interrupt came.
InterruptWrite ==
    /\ pc \in {"cycle", "log_health_check"}
    /\ Raise("KeyboardInterrupt", pc)
    /\ lock' = Null
    /\ thr' = [thr EXCEPT !["loop"] =
                    [@ EXCEPT !.pc = "acquire", !.op = "log_meta_log"]]
    /\ call' = [call EXCEPT !.op = "interrupt",
                            !.data = IF pc = "cycle" THEN "cycle"
                                     ELSE thr["loop"].pc]
    /\ UNCHANGED <<config, failed_count, report_generated, locals, cmds, now,
                   store, hist, windows_events, meta_logs, uncommitted,
                   durable>>

\* The statement of the handler's db.log_meta_log raises sqlite3.Error:
\* the with block releases the lock, no commit is made, and emit swallows
\* the exception.
ExecuteRaises ==
    /\ pc = "stopped"
    /\ thr["loop"].pc = "execute"
    /\ thr["loop"].op = "log_meta_log"
    /\ lock' = Null
    /\ thr' = [thr EXCEPT !["loop"].pc = "idle"]
    /\ UNCHANGED <<config, pc, failed_count, report_generated, locals, cmds,
                   exc, now, store, hist, call, windows_events, meta_logs,
                   uncommitted, durable>>

\* main() returns from its except clause and the process ends.
Exit ==
    /\ pc = "stopped"
    /\ thr["loop"].pc = "idle"
    /\ pc' = "exited"
    /\ UNCHANGED <<config, conn, call, failed_count, report_generated,
                   locals, cmds, exc, now, store, hist>>

NextCancel ==
    \/ EnterWrite
    \/ Acquire("loop")
    \/ Execute("loop")
    \/ Commit("loop")
    \/ Release("loop")
    \/ WriteReturned
    \/ InterruptWrite
    \/ ExecuteRaises
    \/ Exit

SpecCancel == InitCancel /\ [][NextCancel]_vars

\* C24 as stated: when the daemon has exited after an interrupt that came
\* during a health-check write, every health-check write that was called
\* is committed, and no statement is left uncommitted.
C24_InterruptCompletesWrite ==
    (pc = "exited" /\ call.data # "cycle") =>
        /\ Len(durable.health_checks) = call.id
        /\ uncommitted = <<>>

\* --------------------------------------------------------------- the report

\* The Python values of a row's BOOLEAN column; a bool is an int (True is
\* 1, False is 0) of its own type.
PyNone == [type |-> "NoneType", value |-> 0]

PyInt(n) == [type |-> "int", value |-> n]

PyBoolean(b) == [type |-> "bool", value |-> IF b THEN 1 ELSE 0]

\* dict(r)[column] of a sqlite3.Row for a BOOLEAN column: the integer the
\* column holds, None for NULL.
column_value(v) == IF v = Null THEN PyNone ELSE PyInt(v[1])

\* x is False: x is the object False, which no int and no None is.
is_False(x) == x.type = "bool" /\ x.value = 0

\* dict(r) of a health-check row, with the columns _detect_issues reads
\* that the model holds.
check_dict(row) ==
    [netbird_running |-> column_value(row.netbird_running),
     services_status |-> row.services_status]

\* _load_services_status(raw) of the text log_health_check stored.
_load_services_status(raw) == json_loads(raw)

\* A second address-keyed service (Config.SERVICE_IPS is a list).
OtherAddress == "203.0.113.6"

\* any(ch.isalpha() for ch in key): the key holds a letter; the address
\* keys are digits and dots.
isalpha_any(key) == key \notin {"203.0.113.5", OtherAddress}

\* The hostname-keyed and the address-keyed services of a check.
hostname_keys(services) == {k \in DOMAIN services.values : isalpha_any(k)}

ip_keys(services) == {k \in DOMAIN services.values : ~isalpha_any(k)}

\* any(reach) for the reachable flags of the services keys.
any_reach(services, keys) == \E k \in keys : services.values[k]

\* Mutant of hostname_up_ip_down: the check is not asked to hold both
\* kinds of service.
hostname_up_ip_down_unpaired(services) ==
    /\ any_reach(services, hostname_keys(services))
    /\ ~any_reach(services, ip_keys(services))

\* report_generator.py 65-67: the check holds both kinds, a hostname-keyed
\* service is reachable and no address-keyed one is.
hostname_up_ip_down(services) ==
    /\ hostname_keys(services) # {} /\ ip_keys(services) # {}
    /\ any_reach(services, hostname_keys(services))
    /\ ~any_reach(services, ip_keys(services))

\* report_generator.py 65, 68-69: the opposite pattern.
hostname_down_ip_up(services) ==
    /\ hostname_keys(services) # {} /\ ip_keys(services) # {}
    /\ ~any_reach(services, hostname_keys(services))
    /\ any_reach(services, ip_keys(services))

\* A line of the issue list: which one, and the c/K it reports (0/0 for a
\* line without counts).
Line(name, count, total) == [line |-> name, count |-> count, total |-> total]

\* One line when cnt is not 0.
LineIf(name, cnt, count, total) ==
    IF cnt > 0 THEN <<Line(name, count, total)>> ELSE <<>>

\* _detect_issues(checks); the internet and DNS counters are of columns
\* the model does not hold.
_detect_issues(checks) ==
    IF checks = <<>>
    THEN <<Line("no_health_checks", 0, 0)>>
    ELSE
        LET total == Len(checks)
            services(i) == _load_services_status(checks[i].services_status)
            process_down ==
                Cardinality({i \in 1 .. total :
                                is_False(checks[i].netbird_running)})
            all_services_down ==
                Cardinality({i \in 1 .. total :
                    /\ DOMAIN services(i).values # {}
                    /\ ~any_reach(services(i), DOMAIN services(i).values)})
            up_down ==
                Cardinality({i \in 1 .. total :
                                hostname_up_ip_down(services(i))})
            down_up ==
                Cardinality({i \in 1 .. total :
                                hostname_down_ip_up(services(i))})
            issues ==
                LineIf("process_down", process_down, process_down, total)
                \o LineIf("all_services_down", all_services_down,
                          all_services_down, total)
                \o LineIf("hostname_down_ip_up", down_up, 0, 0)
                \o LineIf("hostname_up_ip_down", up_down, 0, 0)
        IN  IF issues = <<>>
            THEN <<Line("no_obvious_failures", 0, 0)>>
            ELSE issues

\* json.loads of a text dumps wrote.
loads(text) == text.json

\* Mutant of embedded_deep: the incidents are not looked at.
embedded_deep_ignored(incidents) == <<>>

\* report_generator.py 196-204: the deep bundle of the newest incident,
\* {} when there is no incident or its diagnostics hold no "deep".
embedded_deep(incidents) ==
    IF incidents = <<>>
    THEN <<>>
    ELSE LET diagnostics == loads(incidents[1].diagnostics)
         IN  IF "deep" \in DOMAIN diagnostics THEN diagnostics.deep ELSE <<>>

\* not deep: the dict is empty.
empty_dict(d) == DOMAIN d = {}

\* The limits generate_report reads the two tables with (the defaults of
\* get_recent_health_checks and get_recent_failures).
DefaultChecksLimit == 200

DefaultFailuresLimit == 10

\* run_deep_checks() called by the report: a bundle, or TimeoutExpired out
\* of one of its commands.
CaptureOutcomes ==
    {[raised |-> FALSE, bundle |-> d] : d \in DeepBundles}
        \cup {[raised |-> TRUE, bundle |-> NoDeep]}

\* A command of the report: it completed, or ran into its timeout.
CommandOutcomes == {"completed", "timeout"}

\* write_raw(suffix, content): the attachment holds content, EMPTY when
\* there is none.
write_raw(suffix, content) ==
    [name |-> suffix, content |-> IF content = "" THEN "EMPTY" ELSE content]

\* The five attachments of a deep bundle: the output of a capture that
\* succeeded, no content for one that did not.
deep_attachments(deep) ==
    << write_raw("adapters.json",
                 IF deep.network_adapters THEN "output" ELSE ""),
       write_raw("dns_servers.json",
                 IF deep.dns_servers THEN "output" ELSE ""),
       write_raw("routing_table.txt",
                 IF deep.routing_table THEN "output" ELSE ""),
       write_raw("netstat.txt",
                 IF deep.active_connections THEN "output" ELSE ""),
       write_raw("windows_events.txt",
                 IF deep.windows_events THEN "output" ELSE "") >>

\* _run_cmd(command): the output, or the text of the exception it caught
\* as stderr.
_run_cmd(outcome) == IF outcome = "completed" THEN "output" ELSE "error"

\* The suffixes of the attachments of a report.
AttachmentNames ==
    <<"adapters.json", "dns_servers.json", "routing_table.txt", "netstat.txt",
      "windows_events.txt", "netbird_status.txt", "netbird_status.json",
      "netbird_routes_list.txt", "dns_resolution.json">>

\* What a call of generate_report did.
ReportCall(checks, incidents, issues, source, deep, attachments, path) ==
    [IncidentCall("generate_report") EXCEPT
        !.before = [health_checks |-> checks, failures |-> incidents],
        !.data = [issues |-> issues, source |-> source, deep |-> deep,
                  attachments |-> attachments],
        !.result = path]

\* generate_report() (report_generator.py 188-301).
GenerateReport ==
    /\ pc = "store"
    /\ \E rows \in get_recent(health_checks, DefaultChecksLimit),
          incidents \in get_recent(failures, DefaultFailuresLimit),
          capture \in CaptureOutcomes,
          status_cmd, status_json, routes_list \in CommandOutcomes :
        LET checks == [i \in DOMAIN rows |-> check_dict(rows[i])]
            issues == _detect_issues(checks)
            embedded == embedded_deep(incidents)
            fresh == empty_dict(embedded)
            source == IF fresh THEN "run_deep_checks" ELSE "incident"
            deep == IF fresh THEN capture.bundle ELSE embedded
        IN  IF fresh /\ capture.raised
            THEN /\ Raise("TimeoutExpired", "run_deep_checks")
                 /\ call' = ReportCall(rows, incidents, issues, source,
                                       NoDeep, <<>>, <<>>)
                 /\ report_generated' = report_generated
            ELSE IF status_cmd = "timeout"
            THEN /\ Raise("TimeoutExpired", "get_netbird_status")
                 /\ call' = ReportCall(rows, incidents, issues, source,
                                       deep, <<>>, <<>>)
                 /\ report_generated' = report_generated
            ELSE /\ pc' = "reported"
                 /\ exc' = exc
                 /\ report_generated' = TRUE
                 /\ call' = ReportCall(rows, incidents, issues, source, deep,
                        deep_attachments(deep)
                        \o << write_raw("netbird_status.txt", "output"),
                              write_raw("netbird_status.json",
                                        _run_cmd(status_json)),
                              write_raw("netbird_routes_list.txt",
                                        _run_cmd(routes_list)),
                              write_raw("dns_resolution.json", "output") >>,
                        <<"report_path">>)
    /\ UNCHANGED <<config, conn, failed_count, locals, cmds, now, store,
                   hist>>

\* ------------------------------------------------- the window of the report

\* The services dicts of the checks the report is run over: none, one
\* kind alone, one of each kind, and a second address-keyed service.
WindowServices ==
    {<<>>, <<"svc-a">>, <<"203.0.113.5">>, <<"svc-a", "203.0.113.5">>,
     <<"svc-a", "203.0.113.5", OtherAddress>>}

\* The routine bundles of those checks: both services reachable with the
\* process running, not running or unknown, and the process running with
\* every reachability of every services dict.
WindowBundles ==
    {[process |-> p, keys |-> <<"svc-a", "203.0.113.5">>,
      services |-> [k \in Services |-> TRUE]] : p \in PyBool}
    \cup
    UNION {{[process |-> Some(TRUE), keys |-> ks, services |-> v] :
                v \in [{ks[i] : i \in DOMAIN ks} -> BOOLEAN]} :
           ks \in WindowServices}

InitIssues ==
    /\ ConnectionIdle
    /\ call = NoCall
    /\ LoopAtRest
    /\ EmptyStore
    /\ pc = "store"
    /\ results = CHOOSE b \in LoopBundles : TRUE
    /\ status = "unassessed"

\* A cycle's db.log_health_check(summarize_health_check(results, status))
\* (main.py 30-33), the next cycle one interval later.
WriteCheck ==
    /\ pc = "store"
    /\ Len(health_checks) < MaxRows
    /\ \E b \in WindowBundles :
        LET data == summarize_health_check(b, assess_health(b), now)
        IN  /\ health_checks' = Append(health_checks,
                    health_check_row(sqlite_sequence.health_checks, data))
            /\ call' = [IncidentCall("log_health_check") EXCEPT
                            !.result = <<sqlite_sequence.health_checks + 1>>]
    /\ sqlite_sequence' = [sqlite_sequence EXCEPT !.health_checks = @ + 1]
    /\ now' = now + ROUTINE_CHECK_INTERVAL
    /\ UNCHANGED <<config, conn, pc, failed_count, report_generated, locals,
                   cmds, exc, failures, hist>>

NextIssues ==
    \/ WriteCheck
    \/ GenerateReport

SpecIssues == InitIssues /\ [][NextIssues]_vars

\* The report was written: its window, newest check first, and the lines
\* of its issue list.
Reported == pc = "reported" /\ call.op = "generate_report"

Window == call.before.health_checks

IssueLines == {call.data.issues[j] : j \in DOMAIN call.data.issues}

\* C26 as stated: with c the number of records of the window of K that
\* were written with netbird_running = false, the issue list holds the
\* process-down line c/K when c >= 1 and no process-down line when c = 0.
C26_ProcessDownCounted ==
    Reported =>
        LET K == Len(Window)
            c == Cardinality({i \in 1 .. K :
                    Window[i].netbird_running = bound(Some(FALSE))})
        IN  /\ c >= 1 => Line("process_down", c, K) \in IssueLines
            /\ c = 0 => \A l \in IssueLines : l.line # "process_down"

\* The reachable flags of the services of check i of the window, and its
\* address-keyed and hostname-keyed services.
Reach(i) == json_loads(Window[i].services_status).values

Addresses(i) == DOMAIN Reach(i) \cap {"203.0.113.5", OtherAddress}

Hostnames(i) == DOMAIN Reach(i) \ Addresses(i)

HasLine(name) == \E l \in IssueLines : l.line = name

\* C27 as stated: when some hostname-keyed service is reachable in every
\* check of the window and some address-keyed service is unreachable in
\* every check, the issue list holds the hostname-up/address-down line; an
\* asymmetry line is there only when a check holds both kinds of service.
C27_HostnameUpAddressDown ==
    Reported =>
        /\ (/\ Window # <<>>
            /\ \E h \in {"svc-a"}, a \in {"203.0.113.5", OtherAddress} :
                \A i \in DOMAIN Window :
                    /\ h \in DOMAIN Reach(i) /\ Reach(i)[h]
                    /\ a \in DOMAIN Reach(i) /\ ~Reach(i)[a])
                => HasLine("hostname_up_ip_down")
        /\ (HasLine("hostname_up_ip_down") \/ HasLine("hostname_down_ip_up"))
                => \E i \in DOMAIN Window :
                        Hostnames(i) # {} /\ Addresses(i) # {}

\* C27, amended: the hostname-up/address-down line is in the issue list
\* exactly when some check of the window holds both kinds of service, with
\* a hostname-keyed one reachable and every address-keyed one unreachable;
\* the hostname-down/address-up line exactly when some check holds both
\* kinds, with every hostname-keyed one unreachable and an address-keyed
\* one reachable.
C27_AsymmetryLines ==
    Reported =>
        /\ HasLine("hostname_up_ip_down") <=>
                \E i \in DOMAIN Window :
                    /\ Hostnames(i) # {} /\ Addresses(i) # {}
                    /\ \E h \in Hostnames(i) : Reach(i)[h]
                    /\ \A a \in Addresses(i) : ~Reach(i)[a]
        /\ HasLine("hostname_down_ip_up") <=>
                \E i \in DOMAIN Window :
                    /\ Hostnames(i) # {} /\ Addresses(i) # {}
                    /\ \A h \in Hostnames(i) : ~Reach(i)[h]
                    /\ \E a \in Addresses(i) : Reach(i)[a]

\* A report over two checks, each with svc-a reachable and 203.0.113.5
\* unreachable, holds the hostname-up/address-down line.
C27_Witness ==
    /\ Reported
    /\ Len(Window) = 2
    /\ \A i \in DOMAIN Window :
        /\ DOMAIN Reach(i) = Services
        /\ Reach(i)["svc-a"] /\ ~Reach(i)["203.0.113.5"]
    /\ HasLine("hostname_up_ip_down")

\* ------------------------------------------- the incidents of the report

\* The diagnostics log_failure is called with: the routine and a deep
\* bundle as the loop passes them (main.py 82), an empty deep bundle, no
\* deep bundle, and none at all.
ReportDiagnostics ==
    {[routine |-> TRUE, deep |-> d] : d \in DeepBundles}
        \cup {[routine |-> TRUE, deep |-> <<>>], [routine |-> TRUE]}

\* The incidents written before the report, at the time ts.
ReportIncidents(ts) ==
    {[timestamp |-> ts, failure_type |-> "auto_detected",
      severity |-> Some("critical"), diagnostics |-> d] :
        d \in ReportDiagnostics}
    \cup {[timestamp |-> ts, failure_type |-> "auto_detected"]}

InitReport ==
    /\ ConnectionIdle
    /\ call = NoCall
    /\ LoopAtRest
    /\ EmptyStore
    /\ pc = "store"
    /\ results = CHOOSE b \in LoopBundles : TRUE
    /\ status = "unassessed"

\* db.log_failure(data) of an escalation, the next one a cycle later.
WriteIncident ==
    /\ pc = "store"
    /\ Len(failures) < MaxRows
    /\ \E data \in ReportIncidents(now) :
        /\ failures' = Append(failures,
                              failure_row(sqlite_sequence.failures, data))
        /\ call' = [IncidentCall("log_failure") EXCEPT
                        !.result = <<sqlite_sequence.failures + 1>>]
    /\ sqlite_sequence' = [sqlite_sequence EXCEPT !.failures = @ + 1]
    /\ now' = now + ROUTINE_CHECK_INTERVAL
    /\ UNCHANGED <<config, conn, pc, failed_count, report_generated, locals,
                   cmds, exc, health_checks, hist>>

NextReport ==
    \/ WriteIncident
    \/ GenerateReport

SpecReport == InitReport /\ [][NextReport]_vars

\* generate_report was called.
ReportCalled == call.op = "generate_report"

\* The diagnostics the newest incident was written with hold a deep
\* bundle that is not empty; the newest incident is the last one written.
NewestHoldsDeep ==
    /\ failures # <<>>
    /\ LET d == failures[Len(failures)].diagnostics.json
       IN  "deep" \in DOMAIN d /\ DOMAIN d.deep # {}

\* C25: generate_report takes the deep bundle of the newest incident when
\* that incident holds one that is not empty, and calls run_deep_checks
\* otherwise (no incident, no deep bundle, an empty one); the attachments
\* of a report that was written are those of that bundle; with an empty
\* failures table the report is written unless a command of the capture or
\* the status command ran into its timeout.
C25_DeepSource ==
    ReportCalled =>
        /\ IF NewestHoldsDeep
           THEN /\ call.data.source = "incident"
                /\ call.data.deep = failures[Len(failures)].diagnostics.json.deep
           ELSE call.data.source = "run_deep_checks"
        /\ pc = "reported" =>
                \A i \in 1 .. 5 :
                    call.data.attachments[i] =
                        deep_attachments(call.data.deep)[i]
        /\ failures = <<>> =>
                \/ pc = "reported" /\ call.result = <<"report_path">>
                \/ /\ exc.type = "TimeoutExpired"
                   /\ exc.site \in {"run_deep_checks", "get_netbird_status"}

\* A report took the bundle of the newest of two incidents, whose captures
\* had failed, and not the one of the older, whose captures had succeeded.
C25_Witness ==
    /\ pc = "reported"
    /\ ReportCalled
    /\ Len(failures) = 2
    /\ call.data.source = "incident"
    /\ ~call.data.deep.network_adapters
    /\ LET older == failures[1].diagnostics.json
       IN  /\ "deep" \in DOMAIN older
           /\ DOMAIN older.deep # {}
           /\ older.deep.network_adapters
    /\ call.data.attachments[1].content = "EMPTY"

\* C28 as stated: a capture of generate_report that fails (the status
\* command, the structured status, the route list, a deep capture) does
\* not abort the report: every attachment is written, the failed one with
\* placeholder content, and generate_report returns the report path.
C28_CaptureFailureKeepsReport ==
    ReportCalled =>
        /\ pc = "reported"
        /\ call.result = <<"report_path">>
        /\ [i \in DOMAIN call.data.attachments |->
                call.data.attachments[i].name] = AttachmentNames
        /\ \A i \in DOMAIN call.data.attachments :
                call.data.attachments[i].content # ""

\* ------------------------------------------- the threshold, further claims

\* Cycle k has not escalated: no deep capture of an escalation, no
\* incident, no restart.
NoEscalation(k) ==
    /\ hist[k].gate \in {"pending", "pass"}
    /\ hist[k].incidents = <<>>
    /\ \A i \in DOMAIN hist[k].deep_calls :
            hist[k].deep_calls[i] # "escalation"
    /\ hist[k].restarts = 0

\* C31: whatever the threshold, 0 and negative values included, a cycle
\* assessed healthy or degraded does not escalate; with a threshold <= 1
\* every cycle assessed failed escalates, and has written its incident
\* when it is over.
C31_EscalationNeedsFailedStatus ==
    \A k \in Cycles :
        /\ hist[k].status \in {"healthy", "degraded"} => NoEscalation(k)
        /\ (RESTART_FAILURE_THRESHOLD <= 1 /\ hist[k].status = "failed") =>
            /\ Gated(k) => hist[k].gate = "escalate"
            /\ Settled(k) => Len(hist[k].incidents) = 1

\* With a threshold of 0 or less, a healthy and a degraded cycle have gone
\* by without an escalation and a failed cycle after them has escalated.
C31_Witness ==
    /\ RESTART_FAILURE_THRESHOLD <= 0
    /\ \E i, j, k \in Cycles :
        /\ i < k /\ j < k
        /\ hist[i].status = "healthy" /\ hist[i].done /\ NoEscalation(i)
        /\ hist[j].status = "degraded" /\ hist[j].done /\ NoEscalation(j)
        /\ hist[k].status = "failed"
        /\ hist[k].gate = "escalate"
        /\ Len(hist[k].incidents) = 1
        /\ Settled(k)

\* --------------------------------------------- the restart, further claims

\* C32: in the fallback, net start is run after net stop whatever the exit
\* code of net stop was; the result is net_stop_start with success exactly
\* when net stop and net start both exited 0, and a net start that exited
\* 0 after a net stop that did not gives success = false, method = failed.
C32_StartRunsAfterFailedStop ==
    /\ (stop.kind = "completed" /\ pc # "restart_start") =>
            /\ Len(cmdlog) = 3
            /\ cmdlog[2] = "net stop"
            /\ cmdlog[3] = "net start"
    /\ (pc = "restart_returned" /\ stop.kind = "completed") =>
            /\ start.kind = "completed"
            /\ (restart_result.success /\ restart_result.method = "net_stop_start")
                    <=> (stop.returncode = 0 /\ start.returncode = 0)
            /\ (stop.returncode # 0 /\ start.returncode = 0) =>
                    /\ ~restart_result.success
                    /\ restart_result.method = "failed"
                    /\ restart_result.error = Some("restart_failed")

\* net stop exited 1, net start was run and exited 0, and the result is a
\* failure.
C32_Witness ==
    /\ pc = "restart_returned"
    /\ cmdlog = <<"powershell", "net stop", "net start">>
    /\ stop.returncode = 1
    /\ start.kind = "completed"
    /\ start.returncode = 0
    /\ ~restart_result.success
    /\ restart_result.method = "failed"

\* ----------------------------------------------- the report of the loop

\* The time since start when cycle k comes to its report test: the clock
\* of its routine checks and the restart waits of the cycle.
ReportTime(k) == CycleTime(k) + hist[k].cooldowns * RESTART_WAIT_SECONDS

\* Cycle k is past its report test.
PastReport(k) == hist[k].done \/ (k = Len(hist) /\ pc = "sleep")

\* C33: generate_report is called at most once in a run: in the first
\* cycle that comes to its end with REPORT_INTERVAL_SECONDS elapsed since
\* start, in no cycle before it and in no cycle after it.
C33_ReportAtMostOnce ==
    /\ \A k \in Cycles : hist[k].reports <= 1
    /\ \A j, k \in Cycles :
            (hist[j].reports = 1 /\ hist[k].reports = 1) => j = k
    /\ \A k \in Cycles :
        /\ hist[k].reports = 1 =>
            /\ ReportTime(k) >= REPORT_INTERVAL_SECONDS
            /\ \A j \in 1 .. k - 1 : ReportTime(j) < REPORT_INTERVAL_SECONDS
        /\ (PastReport(k) /\ hist[k].reports = 0) =>
            \/ ReportTime(k) < REPORT_INTERVAL_SECONDS
            \/ \E j \in 1 .. k - 1 : hist[j].reports = 1
    /\ report_generated => \E k \in Cycles : hist[k].reports = 1

\* The first cycle came to its end before the interval had elapsed and
\* generated no report, the second generated it, and the third, later
\* still, did not.
C33_Witness ==
    /\ Len(hist) = 3
    /\ hist[3].done
    /\ hist[1].reports = 0
    /\ hist[2].reports = 1
    /\ hist[3].reports = 0
    /\ ReportTime(3) > REPORT_INTERVAL_SECONDS
    /\ report_generated

====
